---- MODULE Spec2Model ----
(***************************************************************************)
(* A model of the barbershop backend: the client directory                 *)
(* (services/client_service.py), the catalog (services/service_service.py),*)
(* the attendance lifecycle (services/attendance_service.py) and the       *)
(* notifier (services/whatsapp_service.py).                                *)
(*                                                                         *)
(* Strings that the code inspects character by character (tax ids, phones, *)
(* login identifiers) are sequences of one-character strings.  Instants    *)
(* are whole hours; a naive datetime is the hour count of its wall clock.  *)
(***************************************************************************)
EXTENDS Integers, Sequences, FiniteSets, TLC

VARIABLES
    clients,            \* table clients: id -> row
    next_client_id,     \* the table's serial
    services,           \* table services: id -> row
    next_service_id,
    attendances,        \* table attendances (+ attendance_services): id -> row
    next_attendance_id,
    now,                \* the absolute instant, in hours since an epoch (UTC)
    whatsapp,           \* what the last call of whatsapp_service.send_message did
    request,            \* the last request: its operation and arguments
    result,             \* and the response to it
    cpf_arg,            \* the argument of a stand-alone _is_valid_cpf call
    cpf_ret,            \* and what it returned
    tasks,              \* the requests in flight: task -> its position and locals
    host_offset         \* the host's timezone: hours to add to UTC for date.today()

vars == <<clients, next_client_id, services, next_service_id, attendances,
          next_attendance_id, now, whatsapp, request, result, cpf_arg, cpf_ret,
          tasks, host_offset>>

directory_vars == <<clients, next_client_id>>
catalog_vars == <<services, next_service_id>>
attendance_vars == <<attendances, next_attendance_id>>
cpf_vars == <<cpf_arg, cpf_ret>>

----------------------------------------------------------------------------
(* Bounds of the model.                                                    *)

MaxClients == 2
MaxServices == 2
MaxAttendances == 1
FreeDigits == 3

----------------------------------------------------------------------------
(* Characters and digit strings.                                           *)

DigitChars == <<"0", "1", "2", "3", "4", "5", "6", "7", "8", "9">>

DigitSet == {DigitChars[i] : i \in 1..10}

\* a character str.isdigit() accepts and int() refuses: the superscript two
\* (U+00B2), a Unicode digit that is not a decimal
SuperscriptTwo == "sup2"

\* str.isdigit() on one character
isdigit(ch) == ch \in DigitSet \cup {SuperscriptTwo}

\* int(ch) raises ValueError
int_raises(ch) == ch \notin DigitSet

\* int(ch) for a decimal character
int(ch) == (CHOOSE i \in 1..10 : DigitChars[i] = ch) - 1

\* str(d) for 0 <= d <= 9
str(d) == DigitChars[d + 1]

None == "None"

RECURSIVE SumSeq(_)
SumSeq(s) == IF s = <<>> THEN 0 ELSE Head(s) + SumSeq(Tail(s))

\* client_service._only_digits: the digit characters of value, in order
_only_digits(value) == SelectSeq(value, isdigit)

\* calc(base) inside _is_valid_cpf: the mod-11 check digit of base
calc(base) ==
    LET n == Len(base)
        total == SumSeq([j \in 1..n |-> int(base[j]) * (n + 2 - j)])
        mod == total % 11
    IN  IF mod < 2 THEN 0 ELSE 11 - mod

\* _is_valid_cpf raises ValueError: int() meets, among the nine characters
\* calc(digits[:9]) converts, one that is a digit and not a decimal
is_valid_cpf_raises(cpf) ==
    LET digits == _only_digits(cpf)
    IN  /\ Len(digits) = 11
        /\ ~(\A j \in 1..11 : digits[j] = digits[1])
        /\ \E j \in 1..9 : int_raises(digits[j])

\* a mutant of _is_valid_cpf: the repeated-digit test is missing
is_valid_cpf_no_repeat_test(cpf) ==
    LET digits == _only_digits(cpf)
    IN  IF Len(digits) # 11 THEN FALSE
        ELSE LET d1 == calc(SubSeq(digits, 1, 9))
                 d2 == calc(Append(SubSeq(digits, 1, 9), str(d1)))
             IN  SubSeq(digits, 10, 11) = <<str(d1), str(d2)>>

\* client_service._is_valid_cpf
_is_valid_cpf(cpf) ==
    LET digits == _only_digits(cpf)
    IN  IF Len(digits) # 11 THEN FALSE
        ELSE IF \A j \in 1..11 : digits[j] = digits[1] THEN FALSE
        ELSE LET d1 == calc(SubSeq(digits, 1, 9))
                 d2 == calc(Append(SubSeq(digits, 1, 9), str(d1)))
             IN  SubSeq(digits, 10, 11) = <<str(d1), str(d2)>>

----------------------------------------------------------------------------
(* Time (utils/date_utils.py, datetime).                                   *)

RecifeOffsetHours == 3

\* datetime.utcnow(): the naive UTC wall clock
utcnow == now

\* date_utils.get_recife_datetime(): the wall clock at UTC-3
get_recife_datetime == now - RecifeOffsetHours

\* .date() / func.date(): the civil day of a naive datetime
DateOf(t) == t \div 24

\* date.today(): the civil day on the host's clock
date_today == DateOf(now + host_offset)

\* date_utils.get_recife_date(): the civil day at UTC-3
get_recife_date == DateOf(get_recife_datetime)

----------------------------------------------------------------------------
(* Dates (datetime.date as the services use it).  A date is its proleptic  *)
(* Gregorian ordinal, so that timedelta(days=k) is the addition of k.      *)

is_leap(year) == year % 4 = 0 /\ (year % 100 # 0 \/ year % 400 = 0)

days_in_month(year, month) ==
    IF month = 2 THEN (IF is_leap(year) THEN 29 ELSE 28)
    ELSE IF month \in {4, 6, 9, 11} THEN 30 ELSE 31

days_before_year(year) ==
    LET y == year - 1
    IN  y * 365 + (y \div 4) - (y \div 100) + (y \div 400)

RECURSIVE days_before_month(_, _)
days_before_month(year, month) ==
    IF month = 1 THEN 0
    ELSE days_before_month(year, month - 1) + days_in_month(year, month - 1)

\* date(year, month, day): raises ValueError when the fields name no day
date_raises(year, month, day) ==
    \/ year < 1 \/ year > 9999
    \/ month < 1 \/ month > 12
    \/ day < 1 \/ day > days_in_month(year, month)

\* date(year, month, day).toordinal()
toordinal(year, month, day) ==
    days_before_year(year) + days_before_month(year, month) + day

\* the fields of the date of ordinal n
fromordinal(n) ==
    LET n0 == n - 1
        n400 == n0 \div 146097
        r400 == n0 % 146097
        n100 == r400 \div 36524
        r100 == r400 % 36524
        n4 == r100 \div 1461
        r4 == r100 % 1461
        n1 == r4 \div 365
        r1 == r4 % 365
        y == n400 * 400 + n100 * 100 + n4 * 4 + n1 + 1
    IN  IF n1 = 4 \/ n100 = 4
        THEN [year |-> y - 1, month |-> 12, day |-> 31]
        ELSE LET m == CHOOSE k \in 1..12 :
                          /\ days_before_month(y, k) <= r1
                          /\ r1 < days_before_month(y, k) + days_in_month(y, k)
             IN  [year |-> y, month |-> m, day |-> r1 - days_before_month(y, m) + 1]

\* d.replace(year=..., month=..., day=...)
replace(year, month, day) == toordinal(year, month, day)

\* d.weekday(): Monday is 0
weekday(n) == (n + 6) % 7

RECURSIVE int_of(_)
\* int() of a string of decimal digits
int_of(digits) ==
    IF digits = <<>> THEN 0
    ELSE 10 * int_of(SubSeq(digits, 1, Len(digits) - 1)) + int(digits[Len(digits)])

\* the text of n on width characters, zero filled
zfill(n, width) ==
    [j \in 1..width |-> str((n \div (10 ^ (width - j))) % 10)]

\* d.isoformat()
isoformat(n) ==
    LET f == fromordinal(n)
    IN  zfill(f.year, 4) \o <<"-">> \o zfill(f.month, 2) \o <<"-">> \o zfill(f.day, 2)

\* datetime.strptime(text, '%Y-%m-%d').date(): a year of four digits, a
\* month and a day of one or two, separated by "-"; raised is the ValueError
strptime(text) ==
    LET dashes == {i \in 1..Len(text) : text[i] = "-"}
        all_decimal(part) == \A j \in 1..Len(part) : part[j] \in DigitSet
        bad == [raised |-> TRUE, date |-> 0]
    IN  IF Cardinality(dashes) # 2 THEN bad
        ELSE LET d1 == CHOOSE i \in dashes : \A j \in dashes : i <= j
                 d2 == CHOOSE i \in dashes : \A j \in dashes : j <= i
                 ytext == SubSeq(text, 1, d1 - 1)
                 mtext == SubSeq(text, d1 + 1, d2 - 1)
                 dtext == SubSeq(text, d2 + 1, Len(text))
             IN  IF \/ Len(ytext) # 4 \/ Len(mtext) \notin {1, 2} \/ Len(dtext) \notin {1, 2}
                    \/ ~all_decimal(ytext) \/ ~all_decimal(mtext) \/ ~all_decimal(dtext)
                 THEN bad
                 ELSE IF date_raises(int_of(ytext), int_of(mtext), int_of(dtext))
                 THEN bad
                 ELSE [raised |-> FALSE,
                       date |-> toordinal(int_of(ytext), int_of(mtext), int_of(dtext))]

----------------------------------------------------------------------------
(* Requests and responses.                                                 *)

HTTP_400_BAD_REQUEST == 400
HTTP_404_NOT_FOUND == 404

\* a response: the status code, the HTTPException's detail and the body
Response(code, detail, body) ==
    [status_code |-> code, detail |-> detail, body |-> body]

\* an uncaught exception: the framework answers 500
ServerError(detail) == Response(500, detail, None)

OK(body) == Response(200, "", body)

\* the response of a request that has not returned
Pending == Response(0, "", None)

NoCall == [to |-> <<>>, kind |-> "none", success |-> FALSE, raised |-> FALSE]

(* The inputs the requests of the model carry. *)

CpfValidA == <<"5","2","9","9","8","2","2","4","7","2","5">>
CpfValidB == <<"1","1","1","4","4","4","7","7","7","3","5">>
CpfFormattedA == <<"5","2","9",".","9","8","2",".","2","4","7","-","2","5">>
CpfRepeated == <<"1","1","1","1","1","1","1","1","1","1","1">>
CpfBadCheck == <<"5","2","9","9","8","2","2","4","7","2","4">>
CpfShort == <<"5","2","9","9","8">>
CpfSuperscript == <<SuperscriptTwo,"2","9","9","8","2","2","4","7","2","5">>

PhoneFormatted == <<"(","1","1",")"," ","9","8","8","8","8","-","7","7","7","7">>
PhonePlain == <<"1","1","9","8","8","8","8","7","7","7","7">>
PhoneLandline == <<"(","1","1",")"," ","3","3","3","3","-","4","4","4","4">>
PhoneNine == <<"1","1","9","8","8","8","8","7","7">>
PhoneTwelve == <<"5","5","1","1","9","8","8","8","8","7","7","7">>

----------------------------------------------------------------------------
(* The notifier (services/whatsapp_service.py).                            *)

\* What the world does to one send_message call: the service has no
\* credentials and prints the simulated message ("unconfigured"), or that
\* print itself fails ("print_fails": it is outside the try), or the service
\* is configured and the HTTP request returns 200, another code, or throws.
NotifierEnvs == {"unconfigured", "print_fails", "http_200", "http_error", "request_exception"}

\* WhatsAppService.send_message: the dict it returns, or raised = TRUE when
\* an exception leaves it
send_message(phone, kind, env) ==
    IF env = "unconfigured"
    THEN [to |-> phone, kind |-> kind, success |-> TRUE, raised |-> FALSE]
    ELSE IF env = "print_fails"
    THEN [to |-> phone, kind |-> kind, success |-> FALSE, raised |-> TRUE]
    ELSE LET formatted_phone ==
                 IF Len(phone) >= 2 /\ SubSeq(phone, 1, 2) = <<"5", "5">>
                 THEN phone ELSE <<"5", "5">> \o phone
         IN  [to |-> formatted_phone, kind |-> kind,
              success |-> (env = "http_200"), raised |-> FALSE]

\* a mutant of try_send_message: no except clause
try_send_message_no_except(phone, kind, env) ==
    LET sent == send_message(phone, kind, env)
    IN  [call |-> sent, propagated |-> sent.raised]

\* try: whatsapp_service.send_message(...) / except Exception: print(...)
\* of create_client and login_client; propagated: an exception reaches the
\* caller of the service method
try_send_message(phone, kind, env) ==
    [call |-> send_message(phone, kind, env), propagated |-> FALSE]

----------------------------------------------------------------------------
(* The client directory (services/client_service.py).                      *)

ClientIds == DOMAIN clients

\* a mutant of cpf_taken: only active clients are looked at
cpf_taken_among_active(cpf_digits, except_id) ==
    \E c \in DOMAIN clients \ {except_id} :
        clients[c].is_active /\ clients[c].cpf = cpf_digits

\* db.query(Client).filter(Client.cpf == cpf_digits [, Client.id != client_id]).first()
cpf_taken(cpf_digits, except_id) ==
    \E c \in ClientIds \ {except_id} : clients[c].cpf = cpf_digits

\* db.query(Client).filter(Client.phone == phone_digits [, Client.id != client_id]).first()
phone_taken(phone_digits, except_id) ==
    \E c \in ClientIds \ {except_id} : clients[c].phone = phone_digits

\* the ids of the attendances of a client (Client.attendances)
attendances_of(client_id) ==
    {a \in DOMAIN attendances : attendances[a].client_id = client_id}

\* ClientService.create_client
create_client(cpf, phone, env) ==
    LET cpf_digits == _only_digits(cpf)
        phone_digits == _only_digits(phone)
        op == "create_client"
        rejected(detail) ==
            /\ result' = Response(HTTP_400_BAD_REQUEST, detail, None)
            /\ whatsapp' = NoCall
            /\ UNCHANGED directory_vars
    IN  /\ request' = [op |-> op, cpf |-> cpf, phone |-> phone, env |-> env]
        /\ UNCHANGED <<catalog_vars, attendance_vars, now, cpf_vars, tasks, host_offset>>
        /\ IF is_valid_cpf_raises(cpf_digits)
           THEN /\ result' = ServerError("ValueError")
                /\ whatsapp' = NoCall
                /\ UNCHANGED directory_vars
           ELSE IF ~_is_valid_cpf(cpf_digits) THEN rejected("CPF invalido")
           ELSE IF Len(phone_digits) \notin {10, 11} THEN rejected("Telefone invalido")
           ELSE IF cpf_taken(cpf_digits, 0) THEN rejected("CPF ja cadastrado")
           ELSE IF phone_taken(phone_digits, 0) THEN rejected("Telefone ja cadastrado")
           ELSE LET db_client == [id |-> next_client_id, cpf |-> cpf_digits,
                                  phone |-> phone_digits, is_active |-> TRUE,
                                  updated_at |-> utcnow]
                    sent == try_send_message(db_client.phone, "welcome", env)
                IN  /\ next_client_id <= MaxClients
                    /\ clients' = clients @@ (next_client_id :> db_client)
                    /\ next_client_id' = next_client_id + 1
                    /\ whatsapp' = sent.call
                    /\ result' = IF sent.propagated
                                 THEN ServerError("send_message")
                                 ELSE OK(db_client)

\* a mutant of login_matches: the is_active filter is missing
login_matches_any_status(identifier) ==
    {c \in DOMAIN clients : \/ clients[c].cpf = identifier
                            \/ clients[c].phone = identifier}

\* the active clients an identifier matches (the filter of login_client)
login_matches(identifier) ==
    {c \in ClientIds : /\ clients[c].is_active = TRUE
                       /\ \/ clients[c].cpf = identifier
                          \/ clients[c].phone = identifier}

\* ClientService.login_client
login_client(raw_identifier, env) ==
    LET identifier == _only_digits(raw_identifier)
        op == "login_client"
    IN  /\ request' = [op |-> op, identifier |-> raw_identifier, env |-> env]
        /\ UNCHANGED <<directory_vars, catalog_vars, attendance_vars, now, cpf_vars, tasks, host_offset>>
        /\ IF login_matches(identifier) = {}
           THEN /\ result' = Response(HTTP_404_NOT_FOUND, "Cliente nao encontrado", None)
                /\ whatsapp' = NoCall
           ELSE \E c \in login_matches(identifier) :
                    LET client == clients[c]
                        is_returning == attendances_of(c) # {}
                        sent == try_send_message(client.phone,
                                    IF is_returning THEN "welcome_back" ELSE "welcome", env)
                    IN  /\ whatsapp' = sent.call
                        /\ result' = IF sent.propagated
                                     THEN ServerError("send_message")
                                     ELSE OK(client)

\* ClientService.update_client
update_client(client_id, cpf, phone) ==
    LET cpf_digits == _only_digits(cpf)
        phone_digits == _only_digits(phone)
        op == "update_client"
        rejected(code, detail) ==
            /\ result' = Response(code, detail, None)
            /\ UNCHANGED directory_vars
    IN  /\ request' = [op |-> op, client_id |-> client_id, cpf |-> cpf, phone |-> phone]
        /\ whatsapp' = NoCall
        /\ UNCHANGED <<catalog_vars, attendance_vars, now, cpf_vars, tasks, host_offset>>
        /\ IF client_id \notin ClientIds
           THEN rejected(HTTP_404_NOT_FOUND, "Cliente nao encontrado")
           ELSE IF is_valid_cpf_raises(cpf_digits)
           THEN /\ result' = ServerError("ValueError")
                /\ UNCHANGED directory_vars
           ELSE IF ~_is_valid_cpf(cpf_digits)
           THEN rejected(HTTP_400_BAD_REQUEST, "CPF invalido")
           ELSE IF Len(phone_digits) \notin {10, 11}
           THEN rejected(HTTP_400_BAD_REQUEST, "Telefone invalido")
           ELSE IF cpf_digits # clients[client_id].cpf /\ cpf_taken(cpf_digits, client_id)
           THEN rejected(HTTP_400_BAD_REQUEST, "CPF ja cadastrado")
           ELSE IF phone_digits # clients[client_id].phone /\ phone_taken(phone_digits, client_id)
           THEN rejected(HTTP_400_BAD_REQUEST, "Telefone ja cadastrado")
           ELSE /\ clients' = [clients EXCEPT ![client_id] =
                       [@ EXCEPT !.cpf = cpf_digits, !.phone = phone_digits,
                                 !.updated_at = utcnow]]
                /\ UNCHANGED next_client_id
                /\ result' = OK(clients'[client_id])

\* a mutant of delete_client: the row is deleted whether or not attendances
\* refer to it
delete_client_orphaning(client_id) ==
    LET op == "delete_client"
    IN  /\ request' = [op |-> op, client_id |-> client_id]
        /\ whatsapp' = NoCall
        /\ UNCHANGED <<next_client_id, catalog_vars, attendance_vars, now, cpf_vars, tasks, host_offset>>
        /\ IF client_id \notin ClientIds
           THEN /\ result' = Response(HTTP_404_NOT_FOUND, "Cliente nao encontrado", None)
                /\ UNCHANGED clients
           ELSE /\ clients' = [c \in ClientIds \ {client_id} |-> clients[c]]
                /\ result' = OK(None)

\* ClientService.delete_client.  The Client.attendances relationship has no
\* cascade: deleting a client that has attendances makes the session set
\* their client_id to NULL, which the NOT NULL column refuses, and the
\* commit fails.
delete_client(client_id) ==
    LET op == "delete_client"
    IN  /\ request' = [op |-> op, client_id |-> client_id]
        /\ whatsapp' = NoCall
        /\ UNCHANGED <<next_client_id, catalog_vars, attendance_vars, now, cpf_vars, tasks, host_offset>>
        /\ IF client_id \notin ClientIds
           THEN /\ result' = Response(HTTP_404_NOT_FOUND, "Cliente nao encontrado", None)
                /\ UNCHANGED clients
           ELSE IF attendances_of(client_id) # {}
           THEN /\ result' = ServerError("IntegrityError")
                /\ UNCHANGED clients
           ELSE /\ clients' = [c \in ClientIds \ {client_id} |-> clients[c]]
                /\ result' = OK(None)

\* ClientService.auto_inactivate_clients
auto_inactivate_clients(days_inactive) ==
    LET op == "auto_inactivate_clients"
        cutoff_date == utcnow - days_inactive * 24
        recent == {attendances[a].client_id : a \in
                     {x \in DOMAIN attendances :
                        DateOf(attendances[x].appointment_date) >= DateOf(cutoff_date)}}
        clients_to_inactivate ==
            {c \in ClientIds : clients[c].is_active = TRUE /\ c \notin recent}
    IN  /\ request' = [op |-> op, days_inactive |-> days_inactive]
        /\ clients' = [c \in ClientIds |->
               IF c \in clients_to_inactivate
               THEN [clients[c] EXCEPT !.is_active = FALSE, !.updated_at = utcnow]
               ELSE clients[c]]
        /\ result' = OK(Cardinality(clients_to_inactivate))
        /\ whatsapp' = NoCall
        /\ UNCHANGED <<next_client_id, catalog_vars, attendance_vars, now, cpf_vars, tasks, host_offset>>

\* main.reactivate_client
reactivate_client(client_id) ==
    LET op == "reactivate_client"
    IN  /\ request' = [op |-> op, client_id |-> client_id]
        /\ whatsapp' = NoCall
        /\ UNCHANGED <<next_client_id, catalog_vars, attendance_vars, now, cpf_vars, tasks, host_offset>>
        /\ IF client_id \notin ClientIds
           THEN /\ result' = Response(HTTP_404_NOT_FOUND, "Cliente nao encontrado", None)
                /\ UNCHANGED clients
           ELSE IF clients[client_id].is_active
           THEN /\ result' = Response(HTTP_400_BAD_REQUEST, "Cliente ja esta ativo", None)
                /\ UNCHANGED clients
           ELSE /\ clients' = [clients EXCEPT ![client_id] =
                       [@ EXCEPT !.is_active = TRUE, !.updated_at = utcnow]]
                /\ result' = OK(None)

----------------------------------------------------------------------------
(* The catalog (services/service_service.py).                              *)

ServiceIds == DOMAIN services

\* ServiceService.create_service
create_service(name, price) ==
    LET op == "create_service"
    IN  /\ request' = [op |-> op, name |-> name, price |-> price]
        /\ whatsapp' = NoCall
        /\ UNCHANGED <<directory_vars, attendance_vars, now, cpf_vars, tasks, host_offset>>
        /\ IF \E s \in ServiceIds : services[s].name = name
           THEN /\ result' = Response(HTTP_400_BAD_REQUEST,
                                      "Servico com este nome ja existe", None)
                /\ UNCHANGED catalog_vars
           ELSE LET db_service == [id |-> next_service_id, name |-> name,
                                   price |-> price, is_active |-> TRUE]
                IN  /\ next_service_id <= MaxServices
                    /\ services' = services @@ (next_service_id :> db_service)
                    /\ next_service_id' = next_service_id + 1
                    /\ result' = OK(db_service)

\* ServiceService.update_service
update_service(service_id, name, price) ==
    LET op == "update_service"
    IN  /\ request' = [op |-> op, service_id |-> service_id, name |-> name,
                       price |-> price]
        /\ whatsapp' = NoCall
        /\ UNCHANGED <<directory_vars, next_service_id, attendance_vars, now, cpf_vars,
                       tasks, host_offset>>
        /\ IF service_id \notin ServiceIds
           THEN /\ result' = Response(HTTP_404_NOT_FOUND, "Servico nao encontrado", None)
                /\ UNCHANGED services
           ELSE IF /\ name # services[service_id].name
                   /\ \E s \in ServiceIds \ {service_id} : services[s].name = name
           THEN /\ result' = Response(HTTP_400_BAD_REQUEST,
                                      "Servico com este nome ja existe", None)
                /\ UNCHANGED services
           ELSE /\ services' = [services EXCEPT ![service_id] =
                                   [@ EXCEPT !.name = name, !.price = price]]
                /\ result' = OK(services'[service_id])

\* seq without its i-th element
Remove(seq, i) == SubSeq(seq, 1, i - 1) \o SubSeq(seq, i + 1, Len(seq))

\* requests to the catalog in flight at once, and services they may add
MaxRequests == 2
MaxNewServices == 2

\* ClientService.auto_inactivate_clients up to the end of its query, when
\* another request may commit before the loop's changes are committed
begin_auto_inactivate_clients(days_inactive) ==
    LET cutoff_date == utcnow - days_inactive * 24
        recent == {attendances[a].client_id : a \in
                     {x \in DOMAIN attendances :
                        DateOf(attendances[x].appointment_date) >= DateOf(cutoff_date)}}
        clients_to_inactivate ==
            {c \in ClientIds : clients[c].is_active = TRUE /\ c \notin recent}
    IN  /\ Len(tasks) < MaxRequests
        /\ request' = [op |-> "auto_inactivate_clients", days_inactive |-> days_inactive]
        /\ tasks' = Append(tasks, [op |-> "auto_inactivate_clients",
                                   days_inactive |-> days_inactive,
                                   clients_to_inactivate |-> clients_to_inactivate])
        /\ result' = Pending
        /\ whatsapp' = NoCall
        /\ UNCHANGED <<directory_vars, catalog_vars, attendance_vars, now, cpf_vars,
                       host_offset>>

\* ClientService.auto_inactivate_clients from its loop to its return: the
\* rows selected are written as inactive, whatever was committed since
commit_auto_inactivate_clients(i) ==
    LET task == tasks[i]
    IN  /\ task.op = "auto_inactivate_clients"
        /\ clients' = [c \in ClientIds |->
               IF c \in task.clients_to_inactivate
               THEN [clients[c] EXCEPT !.is_active = FALSE, !.updated_at = utcnow]
               ELSE clients[c]]
        /\ tasks' = Remove(tasks, i)
        /\ request' = [op |-> task.op, days_inactive |-> task.days_inactive]
        /\ result' = OK(Cardinality(task.clients_to_inactivate))
        /\ UNCHANGED <<next_client_id, catalog_vars, attendance_vars, now, whatsapp,
                       cpf_vars, host_offset>>

\* ServiceService.create_service up to its name check, when another request
\* may run before the insert
begin_create_service(name, price) ==
    /\ request' = [op |-> "create_service", name |-> name, price |-> price]
    /\ whatsapp' = NoCall
    /\ UNCHANGED <<directory_vars, catalog_vars, attendance_vars, now, cpf_vars,
                   host_offset>>
    /\ IF \E s \in ServiceIds : services[s].name = name
       THEN /\ result' = Response(HTTP_400_BAD_REQUEST,
                                  "Servico com este nome ja existe", None)
            /\ UNCHANGED tasks
       ELSE /\ Len(tasks) < MaxRequests
            /\ tasks' = Append(tasks, request')
            /\ result' = Pending

\* ServiceService.create_service from db.add to its return
commit_create_service(i) ==
    LET task == tasks[i]
        db_service == [id |-> next_service_id, name |-> task.name,
                       price |-> task.price, is_active |-> TRUE]
    IN  /\ task.op = "create_service"
        /\ next_service_id <= MaxServices + MaxNewServices
        /\ services' = services @@ (next_service_id :> db_service)
        /\ next_service_id' = next_service_id + 1
        /\ tasks' = Remove(tasks, i)
        /\ request' = task
        /\ result' = OK(db_service)
        /\ UNCHANGED <<directory_vars, attendance_vars, now, whatsapp, cpf_vars,
                       host_offset>>

\* ServiceService.update_service up to its name check
begin_update_service(service_id, name, price) ==
    /\ request' = [op |-> "update_service", service_id |-> service_id,
                   name |-> name, price |-> price]
    /\ whatsapp' = NoCall
    /\ UNCHANGED <<directory_vars, catalog_vars, attendance_vars, now, cpf_vars,
                   host_offset>>
    /\ IF service_id \notin ServiceIds
       THEN /\ result' = Response(HTTP_404_NOT_FOUND, "Servico nao encontrado", None)
            /\ UNCHANGED tasks
       ELSE IF /\ name # services[service_id].name
               /\ \E s \in ServiceIds \ {service_id} : services[s].name = name
       THEN /\ result' = Response(HTTP_400_BAD_REQUEST,
                                  "Servico com este nome ja existe", None)
            /\ UNCHANGED tasks
       ELSE /\ Len(tasks) < MaxRequests
            /\ tasks' = Append(tasks, request')
            /\ result' = Pending

\* ServiceService.update_service from its setattr loop to its return
commit_update_service(i) ==
    LET task == tasks[i]
    IN  /\ task.op = "update_service"
        /\ services' = [services EXCEPT ![task.service_id] =
                           [@ EXCEPT !.name = task.name, !.price = task.price]]
        /\ tasks' = Remove(tasks, i)
        /\ request' = task
        /\ result' = OK(services'[task.service_id])
        /\ UNCHANGED <<directory_vars, next_service_id, attendance_vars, now,
                       whatsapp, cpf_vars, host_offset>>

\* a mutant of delete_service: the row is removed
delete_service_removing(service_id) ==
    LET op == "delete_service"
    IN  /\ request' = [op |-> op, service_id |-> service_id]
        /\ whatsapp' = NoCall
        /\ UNCHANGED <<directory_vars, next_service_id, attendance_vars, now, cpf_vars, tasks, host_offset>>
        /\ IF service_id \notin ServiceIds
           THEN /\ result' = Response(HTTP_404_NOT_FOUND, "Servico nao encontrado", None)
                /\ UNCHANGED services
           ELSE /\ services' = [s \in ServiceIds \ {service_id} |-> services[s]]
                /\ result' = OK(None)

\* ServiceService.delete_service
delete_service(service_id) ==
    LET op == "delete_service"
    IN  /\ request' = [op |-> op, service_id |-> service_id]
        /\ whatsapp' = NoCall
        /\ UNCHANGED <<directory_vars, next_service_id, attendance_vars, now, cpf_vars, tasks, host_offset>>
        /\ IF service_id \notin ServiceIds
           THEN /\ result' = Response(HTTP_404_NOT_FOUND, "Servico nao encontrado", None)
                /\ UNCHANGED services
           ELSE /\ services' = [services EXCEPT ![service_id].is_active = FALSE]
                /\ result' = OK(None)

----------------------------------------------------------------------------
(* The attendance lifecycle (services/attendance_service.py).              *)

AttendanceIds == DOMAIN attendances

\* the elements of a list
Range(list) == {list[i] : i \in 1..Len(list)}

\* a mutant of active_services_in: the id filter is missing
active_services_any_id(service_ids) ==
    {s \in DOMAIN services : services[s].is_active = TRUE}

\* db.query(Service).filter(Service.id.in_(service_ids),
\*                          Service.is_active == True).all()
active_services_in(service_ids) ==
    {s \in ServiceIds : s \in Range(service_ids) /\ services[s].is_active = TRUE}

\* a mutant of services_invalid: the count comparison is missing
services_invalid_no_count(service_ids) ==
    active_services_in(service_ids) = {}

\* the services check of create_attendance:
\* not services or len(services) != len(attendance.service_ids)
services_invalid(service_ids) ==
    \/ active_services_in(service_ids) = {}
    \/ Cardinality(active_services_in(service_ids)) # Len(service_ids)

\* a mutant of reactivate_if_inactive: the client is left as it is
reactivate_never(client_id) == clients

\* lines 21-26 of create_attendance: the clients table once the client of
\* the request is reactivated (and the reactivation committed)
reactivate_if_inactive(client_id) ==
    IF ~clients[client_id].is_active
    THEN [clients EXCEPT ![client_id] =
            [@ EXCEPT !.is_active = TRUE, !.updated_at = get_recife_datetime]]
    ELSE clients

\* AttendanceService.create_attendance; attendance is the AttendanceCreate
\* of the request.  The reactivation of an inactive client is committed
\* before the services are checked.
create_attendance(attendance) ==
    LET op == "create_attendance"
        client_id == attendance.client_id
    IN  /\ request' = [op |-> op, attendance |-> attendance]
        /\ whatsapp' = NoCall
        /\ UNCHANGED <<next_client_id, catalog_vars, now, cpf_vars, tasks, host_offset>>
        /\ IF client_id \notin ClientIds
           THEN /\ result' = Response(HTTP_404_NOT_FOUND, "Cliente nao encontrado", None)
                /\ UNCHANGED <<clients, attendance_vars>>
           ELSE /\ clients' = reactivate_if_inactive(client_id)
                /\ IF services_invalid(attendance.service_ids)
                   THEN /\ result' = Response(HTTP_400_BAD_REQUEST,
                                         "Um ou mais servicos invalidos/inativos", None)
                        /\ UNCHANGED attendance_vars
                   ELSE LET db_attendance ==
                                [id |-> next_attendance_id,
                                 client_id |-> client_id,
                                 appointment_date |-> attendance.appointment_date,
                                 status |-> "waiting",
                                 payment_method |-> attendance.payment_method,
                                 payment_status |-> "pending",
                                 notes |-> attendance.notes,
                                 created_at |-> utcnow,
                                 updated_at |-> utcnow,
                                 services |-> active_services_in(attendance.service_ids)]
                        IN  /\ next_attendance_id <= MaxAttendances
                            /\ attendances' =
                                   attendances @@ (next_attendance_id :> db_attendance)
                            /\ next_attendance_id' = next_attendance_id + 1
                            /\ result' = OK(db_attendance)

\* update_data.get(key)
get(update_data, key) ==
    IF key \in DOMAIN update_data THEN update_data[key] ELSE None

\* the truth value of an Optional[str]
truthy(value) == value # None /\ value # ""

\* a mutant of apply_update: a finished or cancelled attendance keeps its
\* status
apply_update_terminal_kept(db_attendance, update_data) ==
    LET new_status == get(update_data, "status")
        a1 == IF truthy(new_status)
                 /\ db_attendance.status \notin {"finished", "cancelled"}
              THEN [db_attendance EXCEPT
                      !.status = new_status,
                      !.payment_status =
                          IF new_status = "finished" THEN "paid" ELSE @]
              ELSE db_attendance
        a3 == IF "payment_status" \in DOMAIN update_data
                 /\ update_data["payment_status"] # None
              THEN [a1 EXCEPT !.payment_status = update_data["payment_status"]]
              ELSE a1
        a4 == IF "notes" \in DOMAIN update_data
              THEN [a3 EXCEPT !.notes = update_data["notes"]]
              ELSE a3
    IN  a4

\* a mutant of apply_update: finishing leaves the payment status alone
apply_update_status_only(db_attendance, update_data) ==
    LET new_status == get(update_data, "status")
        a1 == IF truthy(new_status)
              THEN [db_attendance EXCEPT !.status = new_status]
              ELSE db_attendance
        a3 == IF "payment_status" \in DOMAIN update_data
                 /\ update_data["payment_status"] # None
              THEN [a1 EXCEPT !.payment_status = update_data["payment_status"]]
              ELSE a1
    IN  a3

\* the assignments of update_attendance to one row
apply_update(db_attendance, update_data) ==
    LET new_status == get(update_data, "status")
        a1 == IF truthy(new_status)
              THEN [db_attendance EXCEPT
                      !.status = new_status,
                      !.payment_status =
                          IF new_status = "finished" THEN "paid" ELSE @]
              ELSE db_attendance
        a2 == IF "payment_method" \in DOMAIN update_data
                 /\ update_data["payment_method"] # None
              THEN [a1 EXCEPT !.payment_method = update_data["payment_method"]]
              ELSE a1
        a3 == IF "payment_status" \in DOMAIN update_data
                 /\ update_data["payment_status"] # None
              THEN [a2 EXCEPT !.payment_status = update_data["payment_status"]]
              ELSE a2
        a4 == IF "notes" \in DOMAIN update_data
              THEN [a3 EXCEPT !.notes = update_data["notes"]]
              ELSE a3
    IN  a4

\* AttendanceService.update_attendance
update_attendance(attendance_id, update_data) ==
    LET op == "update_attendance"
    IN  /\ request' = [op |-> op, attendance_id |-> attendance_id,
                       update_data |-> update_data]
        /\ whatsapp' = NoCall
        /\ UNCHANGED <<directory_vars, catalog_vars, next_attendance_id, now, cpf_vars, tasks, host_offset>>
        /\ IF attendance_id \notin AttendanceIds
           THEN /\ result' = Response(HTTP_404_NOT_FOUND,
                                      "Atendimento nao encontrado", None)
                /\ UNCHANGED attendances
           ELSE /\ attendances' = [attendances EXCEPT ![attendance_id] =
                                      [apply_update(@, update_data) EXCEPT
                                          !.updated_at = get_recife_datetime]]
                /\ result' = OK(attendances'[attendance_id])

\* AttendanceService.delete_attendance
delete_attendance(attendance_id) ==
    LET op == "delete_attendance"
    IN  /\ request' = [op |-> op, attendance_id |-> attendance_id]
        /\ whatsapp' = NoCall
        /\ UNCHANGED <<directory_vars, catalog_vars, next_attendance_id, now, cpf_vars, tasks, host_offset>>
        /\ IF attendance_id \notin AttendanceIds
           THEN /\ result' = Response(HTTP_404_NOT_FOUND,
                                      "Atendimento nao encontrado", None)
                /\ UNCHANGED attendances
           ELSE /\ attendances' = [a \in AttendanceIds \ {attendance_id} |-> attendances[a]]
                /\ result' = OK(None)

----------------------------------------------------------------------------
(* The reporting engine (services/attendance_service.py).  A float is the  *)
(* exact ratio [num, den] in lowest terms, den > 0.                        *)

RECURSIVE gcd(_, _)
gcd(a, b) == IF b = 0 THEN a ELSE gcd(b, a % b)

abs(n) == IF n < 0 THEN -n ELSE n

\* the float num / den
Ratio(num, den) ==
    LET g == gcd(abs(num), abs(den))
        sign == IF den < 0 THEN -1 ELSE 1
    IN  [num |-> sign * (num \div g), den |-> sign * (den \div g)]

\* float(n) of an integer
float(n) == [num |-> n, den |-> 1]

\* x - y, x / y and x * n on floats
ratio_sub(x, y) == Ratio(x.num * y.den - y.num * x.den, x.den * y.den)
ratio_div(x, y) == Ratio(x.num * y.den, x.den * y.num)
ratio_times(x, n) == Ratio(x.num * n, x.den)

\* the rows of Attendance joined with Attendance.services, for the
\* attendances of a set
join_services(attendance_ids) ==
    {<<a, s>> \in attendance_ids \X ServiceIds : s \in attendances[a].services}

RECURSIVE sum_price(_)
\* func.sum(Service.price) over joined rows
sum_price(rows) ==
    IF rows = {} THEN 0
    ELSE LET row == CHOOSE r \in rows : TRUE
         IN  services[row[2]].price + sum_price(rows \ {row})

RECURSIVE order_by_desc(_, _)
\* ORDER BY key DESC; rows of equal key in the order of their ids
order_by_desc(ids, key) ==
    IF ids = {} THEN <<>>
    ELSE LET top == CHOOSE x \in ids :
                        \A y \in ids : \/ key[x] > key[y]
                                       \/ key[x] = key[y] /\ x <= y
         IN  <<top>> \o order_by_desc(ids \ {top}, key)

\* the attendances whose func.date(appointment_date) lies in [start, end]
attendances_between(start_date, end_date) ==
    {a \in AttendanceIds : /\ DateOf(attendances[a].appointment_date) >= start_date
                           /\ DateOf(attendances[a].appointment_date) <= end_date}

\* the attendances with a payment_status
attendances_with_payment(payment_status) ==
    {a \in AttendanceIds : attendances[a].payment_status = payment_status}

\* the last day of the month of a date
month_end(d) ==
    LET f == fromordinal(d)
    IN  IF f.month = 12 THEN replace(f.year + 1, 1, 1) - 1
        ELSE replace(f.year, f.month + 1, 1) - 1

\* a mutant of _get_metrics_for_period: only paid attendances are counted
get_metrics_for_period_paid_only(start_date, end_date) ==
    LET in_period == attendances_between(start_date, end_date)
                         \cap attendances_with_payment("paid")
        attendances_in_period == Cardinality(in_period)
        revenue_in_period == sum_price(join_services(in_period))
    IN  [totalClients |-> Cardinality({c \in ClientIds : clients[c].is_active}),
         activeClientsInPeriod |->
             Cardinality({attendances[a].client_id : a \in in_period}),
         totalAttendances |-> attendances_in_period,
         totalRevenue |-> float(revenue_in_period),
         averageTicket |-> IF attendances_in_period > 0
                           THEN Ratio(revenue_in_period, attendances_in_period)
                           ELSE float(0)]

\* AttendanceService._get_metrics_for_period
_get_metrics_for_period(start_date, end_date) ==
    LET in_period == attendances_between(start_date, end_date)
        attendances_in_period == Cardinality(in_period)
        revenue_in_period ==
            sum_price(join_services(in_period \cap attendances_with_payment("paid")))
    IN  [totalClients |-> Cardinality({c \in ClientIds : clients[c].is_active}),
         activeClientsInPeriod |->
             Cardinality({attendances[a].client_id : a \in in_period}),
         totalAttendances |-> attendances_in_period,
         totalRevenue |-> float(revenue_in_period),
         averageTicket |-> IF attendances_in_period > 0
                           THEN Ratio(revenue_in_period, attendances_in_period)
                           ELSE float(0)]

\* a mutant of calculate_percentage: no growth is reported from zero
calculate_percentage_zero_base(current_val, previous_val) ==
    IF previous_val.num = 0 THEN float(0)
    ELSE ratio_times(ratio_div(ratio_sub(current_val, previous_val), previous_val), 100)

\* calculate_percentage inside _calculate_growth_percentages
calculate_percentage(current_val, previous_val) ==
    IF previous_val.num = 0
    THEN (IF current_val.num > 0 THEN float(100) ELSE float(0))
    ELSE ratio_times(ratio_div(ratio_sub(current_val, previous_val), previous_val), 100)

\* AttendanceService._calculate_growth_percentages
_calculate_growth_percentages(current, previous) ==
    [revenueGrowth |->
         calculate_percentage(current.totalRevenue, previous.totalRevenue),
     clientsGrowth |->
         calculate_percentage(float(current.activeClientsInPeriod),
                              float(previous.activeClientsInPeriod)),
     attendancesGrowth |->
         calculate_percentage(float(current.totalAttendances),
                              float(previous.totalAttendances)),
     averageTicketGrowth |->
         calculate_percentage(current.averageTicket, previous.averageTicket)]

\* AttendanceService._get_dashboard_growth_percentages
_get_dashboard_growth_percentages ==
    LET today == date_today
        f == fromordinal(today)
        current_month_start == replace(f.year, f.month, 1)
        current_month_end == month_end(today)
        previous_month_start == IF f.month = 1 THEN replace(f.year - 1, 12, 1)
                                ELSE replace(f.year, f.month - 1, 1)
        previous_month_end == replace(f.year, f.month, 1) - 1
    IN  _calculate_growth_percentages(
            _get_metrics_for_period(current_month_start, current_month_end),
            _get_metrics_for_period(previous_month_start, previous_month_end))

\* the body of AttendanceService.get_reports_summary
reports_summary ==
    LET total_attendances == Cardinality(AttendanceIds)
        total_revenue == sum_price(join_services(attendances_with_payment("paid")))
    IN  [totalClients |-> Cardinality({c \in ClientIds : clients[c].is_active}),
         totalAttendances |-> total_attendances,
         totalRevenue |-> float(total_revenue),
         averageTicket |-> IF total_attendances > 0
                           THEN Ratio(total_revenue, total_attendances)
                           ELSE float(0),
         inactiveClients |-> Cardinality({c \in ClientIds : ~clients[c].is_active}),
         todayAttendances |->
             Cardinality(attendances_between(get_recife_date, get_recife_date)),
         pendingPayments |-> Cardinality(attendances_with_payment("pending")),
         growthPercentages |-> _get_dashboard_growth_percentages]

\* a mutant of current_period: the quarter ends with its second month
current_period_short_quarter(period, start_date, end_date) ==
    IF start_date # <<>> /\ end_date # <<>>
    THEN [raised |-> strptime(start_date).raised \/ strptime(end_date).raised,
          start |-> strptime(start_date).date,
          end |-> strptime(end_date).date]
    ELSE LET today == date_today
             f == fromordinal(today)
             quarter_start_month == ((f.month - 1) \div 3) * 3 + 1
         IN  CASE period = "week" ->
                    [raised |-> FALSE, start |-> today - weekday(today),
                     end |-> today - weekday(today) + 6]
               [] period = "month" ->
                    [raised |-> FALSE, start |-> replace(f.year, f.month, 1),
                     end |-> month_end(today)]
               [] period = "quarter" ->
                    [raised |-> FALSE,
                     start |-> replace(f.year, quarter_start_month, 1),
                     end |-> replace(f.year, quarter_start_month + 2, 1) - 1]
               [] period = "year" ->
                    [raised |-> FALSE, start |-> replace(f.year, 1, 1),
                     end |-> replace(f.year + 1, 1, 1) - 1]
               [] OTHER ->
                    [raised |-> FALSE, start |-> today, end |-> today]

\* the current period of get_reports_summary_by_period; an absent or empty
\* date parameter is the empty string
current_period(period, start_date, end_date) ==
    IF start_date # <<>> /\ end_date # <<>>
    THEN [raised |-> strptime(start_date).raised \/ strptime(end_date).raised,
          start |-> strptime(start_date).date,
          end |-> strptime(end_date).date]
    ELSE LET today == date_today
             f == fromordinal(today)
             quarter_start_month == ((f.month - 1) \div 3) * 3 + 1
         IN  CASE period = "week" ->
                    [raised |-> FALSE, start |-> today - weekday(today),
                     end |-> today - weekday(today) + 6]
               [] period = "month" ->
                    [raised |-> FALSE, start |-> replace(f.year, f.month, 1),
                     end |-> month_end(today)]
               [] period = "quarter" ->
                    [raised |-> FALSE,
                     start |-> replace(f.year, quarter_start_month, 1),
                     end |-> IF quarter_start_month = 10
                             THEN replace(f.year + 1, 1, 1) - 1
                             ELSE replace(f.year, quarter_start_month + 3, 1) - 1]
               [] period = "year" ->
                    [raised |-> FALSE, start |-> replace(f.year, 1, 1),
                     end |-> replace(f.year + 1, 1, 1) - 1]
               [] OTHER ->
                    [raised |-> FALSE, start |-> today, end |-> today]

\* a mutant of previous_period: the previous period starts a day late
previous_period_short(current_start, current_end) ==
    LET days_diff == (current_end - current_start) + 1
    IN  [start |-> current_start - days_diff + 1, end |-> current_start - 1]

\* the previous period of get_reports_summary_by_period
previous_period(current_start, current_end) ==
    LET days_diff == (current_end - current_start) + 1
    IN  [start |-> current_start - days_diff, end |-> current_start - 1]

\* the rows of get_today_attendance
today_attendance ==
    LET today == get_recife_date
        ids == attendances_between(today, today)
        rows == order_by_desc(ids, [a \in ids |-> attendances[a].appointment_date])
    IN  [i \in 1..Len(rows) |-> attendances[rows[i]]]

\* a mutant of get_today_attendance: listing marks the rows as seen
get_today_attendance_touching ==
    /\ request' = [op |-> "get_today_attendance"]
    /\ result' = OK(today_attendance)
    /\ attendances' = [a \in AttendanceIds |->
                          [attendances[a] EXCEPT !.updated_at = get_recife_datetime]]
    /\ UNCHANGED <<directory_vars, catalog_vars, next_attendance_id, now,
                   whatsapp, cpf_vars, tasks, host_offset>>

\* AttendanceService.get_today_attendance
get_today_attendance ==
    /\ request' = [op |-> "get_today_attendance"]
    /\ result' = OK(today_attendance)
    /\ UNCHANGED <<directory_vars, catalog_vars, attendance_vars, now,
                   whatsapp, cpf_vars, tasks, host_offset>>

\* AttendanceService.get_client_attendances
get_client_attendances(client_id) ==
    LET ids == attendances_of(client_id)
        rows == order_by_desc(ids, [a \in ids |-> attendances[a].appointment_date])
    IN  /\ request' = [op |-> "get_client_attendances", client_id |-> client_id]
        /\ result' = OK([i \in 1..Len(rows) |-> attendances[rows[i]]])
        /\ UNCHANGED <<directory_vars, catalog_vars, attendance_vars, now,
                       whatsapp, cpf_vars, tasks, host_offset>>

\* AttendanceService.get_reports_summary
get_reports_summary ==
    /\ request' = [op |-> "get_reports_summary"]
    /\ result' = OK(reports_summary)
    /\ UNCHANGED <<directory_vars, catalog_vars, attendance_vars, now,
                   whatsapp, cpf_vars, tasks, host_offset>>

\* AttendanceService.get_reports_summary_by_period
get_reports_summary_by_period(period, start_date, end_date) ==
    LET current == current_period(period, start_date, end_date)
        previous == previous_period(current.start, current.end)
        current_metrics == _get_metrics_for_period(current.start, current.end)
        previous_metrics == _get_metrics_for_period(previous.start, previous.end)
    IN  /\ request' = [op |-> "get_reports_summary_by_period", period |-> period,
                       start_date |-> start_date, end_date |-> end_date]
        /\ result' =
               IF current.raised THEN ServerError("ValueError")
               ELSE OK([metrics |-> current_metrics,
                        growthPercentages |->
                            _calculate_growth_percentages(current_metrics,
                                                         previous_metrics),
                        period |->
                            [current |-> [start |-> isoformat(current.start),
                                          end |-> isoformat(current.end)],
                             previous |-> [start |-> isoformat(previous.start),
                                           end |-> isoformat(previous.end)]]])
        /\ UNCHANGED <<directory_vars, catalog_vars, attendance_vars, now,
                       whatsapp, cpf_vars, tasks, host_offset>>

\* the rows of get_top_clients, before LIMIT 10
top_clients ==
    LET paid == attendances_with_payment("paid")
        rows_of(c) == join_services({a \in paid : attendances[a].client_id = c})
        ids == {c \in ClientIds : rows_of(c) # {}}
        ordered == order_by_desc(ids, [c \in ids |-> Cardinality(rows_of(c))])
    IN  [i \in 1..Len(ordered) |->
            LET c == ordered[i]
                dates == {attendances[r[1]].appointment_date : r \in rows_of(c)}
            IN  [id |-> c,
                 phone |-> clients[c].phone,
                 totalVisits |-> Cardinality(rows_of(c)),
                 totalRevenue |-> float(sum_price(rows_of(c))),
                 lastVisit |-> CHOOSE d \in dates : \A e \in dates : e <= d,
                 status |-> "active"]]

\* AttendanceService.get_top_clients
get_top_clients ==
    /\ request' = [op |-> "get_top_clients"]
    /\ result' = OK(SubSeq(top_clients, 1, IF Len(top_clients) < 10
                                           THEN Len(top_clients) ELSE 10))
    /\ UNCHANGED <<directory_vars, catalog_vars, attendance_vars, now,
                   whatsapp, cpf_vars, tasks, host_offset>>

\* the activity type get_recent_activities gives a row
activity_type(status, payment_status) ==
    CASE status = "waiting" -> "new_attendance"
      [] status = "progress" -> "attendance_started"
      [] status = "finished" /\ payment_status = "paid" -> "attendance_completed"
      [] status = "finished" /\ payment_status # "paid" -> "attendance_finished"
      [] OTHER -> "attendance_updated"

\* AttendanceService.get_recent_activities; string_agg is the set of names
get_recent_activities(limit) ==
    LET ids == {a \in AttendanceIds : /\ attendances[a].client_id \in ClientIds
                                      /\ join_services({a}) # {}}
        ordered == order_by_desc(ids, [a \in ids |-> attendances[a].updated_at])
        recent == SubSeq(ordered, 1, IF Len(ordered) < limit THEN Len(ordered)
                                     ELSE limit)
    IN  /\ request' = [op |-> "get_recent_activities", limit |-> limit]
        /\ result' =
               OK([i \in 1..Len(recent) |->
                      LET attendance == attendances[recent[i]]
                      IN  [id |-> attendance.id,
                           type |-> activity_type(attendance.status,
                                                  attendance.payment_status),
                           timestamp |-> attendance.updated_at,
                           services |-> {services[s].name : s \in attendance.services},
                           status |-> attendance.status,
                           payment_status |-> attendance.payment_status]])
        /\ UNCHANGED <<directory_vars, catalog_vars, attendance_vars, now,
                       whatsapp, cpf_vars, tasks, host_offset>>

\* AttendanceService.export_reports
export_reports ==
    /\ request' = [op |-> "export_reports"]
    /\ result' = OK([summary |-> reports_summary,
                     top_clients |-> SubSeq(top_clients, 1,
                                            IF Len(top_clients) < 10
                                            THEN Len(top_clients) ELSE 10),
                     export_date |-> utcnow])
    /\ UNCHANGED <<directory_vars, catalog_vars, attendance_vars, now,
                   whatsapp, cpf_vars, tasks, host_offset>>


\* the window of get_revenue_by_period
series_window(period, start_date, end_date) ==
    IF start_date # <<>> /\ end_date # <<>>
    THEN [raised |-> strptime(start_date).raised \/ strptime(end_date).raised,
          start |-> strptime(start_date).date,
          end |-> strptime(end_date).date]
    ELSE LET today == date_today
             f == fromordinal(today)
         IN  [raised |-> FALSE,
              start |-> CASE period = "day" -> today - 30
                          [] period = "week" -> today - 12 * 7
                          [] period = "month" -> replace(f.year, f.month, 1) - 365
                          [] period = "quarter" -> today - 4 * 90
                          [] period = "year" -> replace(f.year, 1, 1) - 365 * 3
                          [] OTHER -> today - 30,
              end |-> today]

\* the revenue of one bucket: paid attendances dated in [first, last]
bucket_revenue(first, last) ==
    float(sum_price(join_services(attendances_between(first, last)
                                      \cap attendances_with_payment("paid"))))

\* the data point appended for a bucket
data_point(current, last) ==
    [date |-> isoformat(current), revenue |-> bucket_revenue(current, last)]

\* min(a, b)
min(a, b) == IF a <= b THEN a ELSE b

\* one pass through the body of "while current <= end": no branch of the
\* if/elif chain is taken for a period that is none of the five
series_iteration(task) ==
    LET current == task.current
        f == fromordinal(current)
        quarter_end_month == ((f.month - 1) \div 3) * 3 + 3
        quarter_end == IF quarter_end_month > 12
                       THEN replace(f.year + 1, quarter_end_month - 12, 1) - 1
                       ELSE replace(f.year, quarter_end_month, 1) - 1
    IN  CASE task.period = "day" ->
               [task EXCEPT !.data_points = Append(@, data_point(current, current)),
                            !.current = current + 1]
          [] task.period = "week" ->
               [task EXCEPT !.data_points =
                                Append(@, data_point(current, min(current + 6, task.end))),
                            !.current = current + 7]
          [] task.period = "month" ->
               [task EXCEPT !.data_points =
                                Append(@, data_point(current, month_end(current))),
                            !.current = month_end(current) + 1]
          [] task.period = "quarter" ->
               [task EXCEPT !.data_points = Append(@, data_point(current, quarter_end)),
                            !.current = quarter_end + 1]
          [] task.period = "year" ->
               [task EXCEPT !.data_points =
                                Append(@, data_point(current, replace(f.year, 12, 31))),
                            !.current = replace(f.year + 1, 1, 1)]
          [] OTHER -> task

\* AttendanceService.get_revenue_by_period up to the head of its loop
get_revenue_by_period(period, start_date, end_date) ==
    LET window == series_window(period, start_date, end_date)
    IN  /\ request' = [op |-> "get_revenue_by_period", period |-> period,
                       start_date |-> start_date, end_date |-> end_date]
        /\ IF window.raised
           THEN /\ result' = ServerError("ValueError")
                /\ UNCHANGED tasks
           ELSE /\ result' = Pending
                /\ tasks' = <<[op |-> "get_revenue_by_period", period |-> period,
                               current |-> window.start, end |-> window.end,
                               data_points |-> <<>>]>>
        /\ UNCHANGED <<directory_vars, catalog_vars, attendance_vars, now,
                       whatsapp, cpf_vars, host_offset>>

\* the data points a series is followed for
MaxDataPoints == 40

\* the loop of get_revenue_by_period: one test of "current <= end", then
\* either one pass through the body or the return
revenue_loop ==
    /\ tasks # <<>>
    /\ tasks[1].op = "get_revenue_by_period"
    /\ Len(tasks[1].data_points) < MaxDataPoints
    /\ IF tasks[1].current <= tasks[1].end
       THEN /\ tasks' = <<series_iteration(tasks[1])>>
            /\ UNCHANGED result
       ELSE /\ tasks' = <<>>
            /\ result' = OK(tasks[1].data_points)
    /\ UNCHANGED <<directory_vars, catalog_vars, attendance_vars, now,
                   whatsapp, cpf_vars, host_offset, request>>

----------------------------------------------------------------------------
(* A stand-alone call of the tax-id validator.                             *)

\* the 11-digit strings the validator is tried on: each base with its last
\* FreeDigits digits replaced by every digit string of that length
CpfBases == {CpfValidA, CpfValidB, CpfRepeated,
             <<"0","0","0","0","0","0","0","0","0","0","0">>,
             <<"9","9","9","9","9","9","9","9","9","9","9">>,
             <<"1","2","3","4","5","6","7","8","9","0","9">>}

CpfCandidates ==
    LET tails == [1..FreeDigits -> DigitSet]
        elevens == {SubSeq(b, 1, 11 - FreeDigits) \o t : b \in CpfBases, t \in tails}
    IN  elevens \cup {SubSeq(c, 1, 10) : c \in elevens}
                \cup {Append(c, "0") : c \in {CpfValidA, CpfValidB}}
                \cup {CpfSuperscript, [j \in 1..11 |-> SuperscriptTwo],
                      Append(SubSeq(CpfValidA, 1, 10), SuperscriptTwo)}

\* _is_valid_cpf(cpf_arg)
validate_cpf ==
    /\ ~cpf_ret.returned
    /\ ~cpf_ret.raised
    /\ cpf_ret' = IF is_valid_cpf_raises(cpf_arg)
                  THEN [returned |-> FALSE, raised |-> TRUE, value |-> FALSE]
                  ELSE [returned |-> TRUE, raised |-> FALSE,
                        value |-> _is_valid_cpf(cpf_arg)]
    /\ UNCHANGED <<directory_vars, catalog_vars, attendance_vars, now, whatsapp,
                   request, result, cpf_arg, tasks, host_offset>>

----------------------------------------------------------------------------
(* The specifications.                                                     *)

\* the sample services of init_db.init_database
SampleServices == <<[name |-> "Corte Masculino", price |-> 35],
                    [name |-> "Barba", price |-> 25],
                    [name |-> "Corte + Barba", price |-> 50],
                    [name |-> "Hidratacao", price |-> 40],
                    [name |-> "Pigmentacao", price |-> 60]>>

\* what every specification starts from, but for cpf_arg
InitDatabase ==
    /\ clients = <<>>
    /\ next_client_id = 1
    /\ services = [s \in 1..MaxServices |->
                     [id |-> s, name |-> SampleServices[s].name,
                      price |-> SampleServices[s].price, is_active |-> TRUE]]
    /\ next_service_id = MaxServices + 1
    /\ attendances = <<>>
    /\ next_attendance_id = 1
    /\ now = 100 * 24 + 1
    /\ whatsapp = NoCall
    /\ request = [op |-> "none"]
    /\ result = Response(0, "", None)
    /\ cpf_ret = [returned |-> FALSE, raised |-> FALSE, value |-> FALSE]
    /\ tasks = <<>>
    /\ host_offset = 0

\* the database after create_all and init_db: no client, no attendance, the
\* first MaxServices sample services
Init ==
    /\ InitDatabase
    /\ cpf_arg = <<>>

(* The whole system with one client: the sample services and the requests
   of the directory and of the attendance lifecycle on a few inputs. *)

ClientInputs == {<<CpfFormattedA, PhoneFormatted>>}
LoginInputs == {CpfFormattedA, PhonePlain, CpfValidB}
AppointmentDates == {90 * 24 + 10}
DefaultDaysInactive == 45
DaysInactiveInputs == {DefaultDaysInactive, 5}
\* the ids of a table's rows and the next one, which no row has
IdInputs(next_id) == 1..next_id
ServiceIdLists ==
    {<<>>} \cup {<<a>> : a \in 1..MaxServices + 1}
           \cup {<<a, b>> : a \in 1..MaxServices, b \in 1..MaxServices}
PaymentMethodInputs == {None, "pix"}
AttendanceCreateInputs ==
    [client_id : ClientIds, appointment_date : AppointmentDates,
     payment_method : PaymentMethodInputs, notes : {None},
     service_ids : ServiceIdLists]
    \cup [client_id : {next_client_id}, appointment_date : AppointmentDates,
          payment_method : {None}, notes : {None}, service_ids : {<<>>, <<1>>}]
StatusInputs == {"waiting", "progress", "finished", "cancelled"}
PaymentStatusInputs == {None, "pending", "paid", "cancelled"}
UpdateInputs ==
    {<<>>} \cup {[status |-> st] : st \in StatusInputs}
           \cup {[payment_status |-> ps] : ps \in PaymentStatusInputs}
           \cup {[status |-> st, payment_status |-> ps] :
                   st \in StatusInputs, ps \in PaymentStatusInputs}

Next ==
    \/ \E in \in ClientInputs : create_client(in[1], in[2], "unconfigured")
    \/ \E identifier \in LoginInputs : login_client(identifier, "unconfigured")
    \/ \E d \in DaysInactiveInputs : auto_inactivate_clients(d)
    \/ \E c \in IdInputs(next_client_id) : reactivate_client(c)
    \/ \E s \in IdInputs(next_service_id) : delete_service(s)
    \/ \E attendance \in AttendanceCreateInputs : create_attendance(attendance)
    \/ \E a \in AttendanceIds, u \in UpdateInputs : update_attendance(a, u)
    \/ update_attendance(next_attendance_id, [status |-> "finished"])
    \/ \E a \in IdInputs(next_attendance_id) : delete_attendance(a)

Spec == Init /\ [][Next]_vars

(* The client directory alone, on raw inputs. *)

CpfInputs == {CpfValidA, CpfFormattedA, CpfValidB, CpfRepeated, CpfBadCheck,
              CpfSuperscript}
IdentifierInputs == {CpfFormattedA, CpfValidB, PhoneFormatted, PhoneLandline, CpfShort}
PhoneInputs == {PhoneFormatted, PhoneLandline, PhoneNine, PhoneTwelve}

NextDirectory ==
    \/ \E cpf \in CpfInputs, phone \in PhoneInputs, env \in NotifierEnvs :
           create_client(cpf, phone, env)
    \/ \E identifier \in IdentifierInputs, env \in NotifierEnvs :
           login_client(identifier, env)
    \/ \E c \in IdInputs(next_client_id), cpf \in CpfInputs, phone \in PhoneInputs :
           update_client(c, cpf, phone)
    \/ \E c \in IdInputs(next_client_id) : delete_client(c)
    \/ \E d \in DaysInactiveInputs : auto_inactivate_clients(d)
    \/ \E c \in IdInputs(next_client_id) : reactivate_client(c)

SpecDirectory == Init /\ [][NextDirectory]_vars

(* The validator alone. *)

InitCpf ==
    /\ InitDatabase
    /\ cpf_arg \in CpfCandidates

SpecCpf == InitCpf /\ [][validate_cpf]_vars

----------------------------------------------------------------------------
(* The inactivation batch at two instants of the day: in the evening,      *)
(* when the UTC day is already the next one, and at midday.                *)

EveningInstant == 100 * 24 + 1
MiddayInstant == 100 * 24 + 15
ClockInputs == {EveningInstant, MiddayInstant}

\* the database of Init, the clock at one of the instants
InitClock ==
    /\ clients = <<>>
    /\ next_client_id = 1
    /\ services = [s \in 1..MaxServices |->
                     [id |-> s, name |-> SampleServices[s].name,
                      price |-> SampleServices[s].price, is_active |-> TRUE]]
    /\ next_service_id = MaxServices + 1
    /\ attendances = <<>>
    /\ next_attendance_id = 1
    /\ now \in ClockInputs
    /\ whatsapp = NoCall
    /\ request = [op |-> "none"]
    /\ result = Response(0, "", None)
    /\ cpf_arg = <<>>
    /\ cpf_ret = [returned |-> FALSE, raised |-> FALSE, value |-> FALSE]
    /\ tasks = <<>>
    /\ host_offset = 0

TwoClientInputs == {<<CpfFormattedA, PhoneFormatted>>, <<CpfValidB, PhoneLandline>>}

\* how many days before today (at UTC-3) an appointment is booked for
DaysAgoInputs == {50, 46, 45, 44, 10, 6, 5, 4, 0}

NextInactivate ==
    \/ \E in \in TwoClientInputs : create_client(in[1], in[2], "unconfigured")
    \/ \E c \in ClientIds, k \in DaysAgoInputs :
           create_attendance([client_id |-> c,
                              appointment_date |-> (get_recife_date - k) * 24 + 10,
                              payment_method |-> None, notes |-> None,
                              service_ids |-> <<1>>])
    \/ \E d \in DaysInactiveInputs : auto_inactivate_clients(d)
    \/ \E c \in ClientIds : reactivate_client(c)
    \/ \E a \in AttendanceIds : delete_attendance(a)

SpecInactivate == InitClock /\ [][NextInactivate]_vars

----------------------------------------------------------------------------
(* The reports over a small database: a client, an attendance, the catalog *)
(* edited, and every read operation, on 2025-03-15 at midday in Recife.    *)

ReportDay == toordinal(2025, 3, 15)

ReportInstant == ReportDay * 24 + 15

InitReports ==
    /\ clients = <<>>
    /\ next_client_id = 1
    /\ services = [s \in 1..MaxServices |->
                     [id |-> s, name |-> SampleServices[s].name,
                      price |-> SampleServices[s].price, is_active |-> TRUE]]
    /\ next_service_id = MaxServices + 1
    /\ attendances = <<>>
    /\ next_attendance_id = 1
    /\ now = ReportInstant
    /\ whatsapp = NoCall
    /\ request = [op |-> "none"]
    /\ result = Response(0, "", None)
    /\ cpf_arg = <<>>
    /\ cpf_ret = [returned |-> FALSE, raised |-> FALSE, value |-> FALSE]
    /\ tasks = <<>>
    /\ host_offset = 0

\* appointments today and a month ago
ReportAppointmentDates == {ReportDay * 24 + 13, (ReportDay - 30) * 24 + 13}

ReportCreateInputs ==
    [client_id : {1}, appointment_date : ReportAppointmentDates,
     payment_method : {"pix"}, notes : {None},
     service_ids : {<<1>>, <<1, 2>>}]

\* a status or a payment status outside the lifecycle's values is accepted
\* by the AttendanceUpdate schema like any other string
ReportUpdateInputs ==
    {[status |-> "finished"], [status |-> "progress"], [status |-> "no_show"],
     [payment_status |-> "paid"], [payment_status |-> "refunded"]}

\* the new price of a service
RaisedPrice == SampleServices[1].price + 10

\* period, start_date, end_date of the revenue series asked for
SeriesInputs ==
    {<<"day", <<>>, <<>>>>,
     <<"week", isoformat(ReportDay - 20), isoformat(ReportDay)>>}

\* period, start_date, end_date of the summaries asked for
SummaryInputs ==
    {<<"month", <<>>, <<>>>>,
     <<"day", isoformat(ReportDay - 30), isoformat(ReportDay)>>}

\* requests are served one at a time: none starts while a series runs
Idle == tasks = <<>>

NextReports ==
    \/ Idle /\ create_client(CpfFormattedA, PhoneFormatted, "unconfigured")
    \/ Idle /\ \E attendance \in ReportCreateInputs : create_attendance(attendance)
    \/ Idle /\ \E update_data \in ReportUpdateInputs : update_attendance(1, update_data)
    \/ Idle /\ update_service(1, SampleServices[1].name, RaisedPrice)
    \/ Idle /\ delete_service(2)
    \/ Idle /\ get_today_attendance
    \/ Idle /\ get_client_attendances(1)
    \/ Idle /\ get_reports_summary
    \/ Idle /\ \E i \in SummaryInputs : get_reports_summary_by_period(i[1], i[2], i[3])
    \/ Idle /\ get_top_clients
    \/ Idle /\ get_recent_activities(10)
    \/ Idle /\ export_reports
    \/ Idle /\ \E i \in SeriesInputs : get_revenue_by_period(i[1], i[2], i[3])
    \/ revenue_loop

SpecReports == InitReports /\ [][NextReports]_vars

----------------------------------------------------------------------------
(* The growth percentage as a function of its two arguments.               *)

\* the values the growth is computed on: counts, sums of prices and average
\* tickets
GrowthValues ==
    {float(n) : n \in {-50, 0, 1, 30, 60, 100, 150}}
        \cup {Ratio(35, 2), Ratio(-1, 2), Ratio(100, 3)}

\* the metrics of a period
MetricsInputs ==
    [totalClients : {1}, activeClientsInPeriod : {0, 1}, totalAttendances : {0, 2},
     totalRevenue : {float(0), float(60)}, averageTicket : {float(0), float(30)}]

InitGrowth ==
    /\ clients = <<>>
    /\ next_client_id = 1
    /\ services = [s \in 1..MaxServices |->
                     [id |-> s, name |-> SampleServices[s].name,
                      price |-> SampleServices[s].price, is_active |-> TRUE]]
    /\ next_service_id = MaxServices + 1
    /\ attendances = <<>>
    /\ next_attendance_id = 1
    /\ now = ReportInstant
    /\ whatsapp = NoCall
    /\ request \in [op : {"calculate_percentage"}, current_val : GrowthValues,
                    previous_val : GrowthValues]
                   \cup [op : {"_calculate_growth_percentages"},
                         current : MetricsInputs, previous : MetricsInputs]
    /\ result = Pending
    /\ cpf_arg = <<>>
    /\ cpf_ret = [returned |-> FALSE, raised |-> FALSE, value |-> FALSE]
    /\ tasks = <<>>
    /\ host_offset = 0

\* calculate_percentage(current_val, previous_val) returns
return_calculate_percentage ==
    /\ request.op = "calculate_percentage"
    /\ result.status_code = 0
    /\ result' = OK(calculate_percentage(request.current_val, request.previous_val))
    /\ UNCHANGED <<directory_vars, catalog_vars, attendance_vars, now, whatsapp,
                   request, cpf_vars, tasks, host_offset>>

\* _calculate_growth_percentages(current, previous) returns
return_calculate_growth_percentages ==
    /\ request.op = "_calculate_growth_percentages"
    /\ result.status_code = 0
    /\ result' = OK(_calculate_growth_percentages(request.current, request.previous))
    /\ UNCHANGED <<directory_vars, catalog_vars, attendance_vars, now, whatsapp,
                   request, cpf_vars, tasks, host_offset>>

NextGrowth == return_calculate_percentage \/ return_calculate_growth_percentages

SpecGrowth == InitGrowth /\ [][NextGrowth]_vars

----------------------------------------------------------------------------
(* The periods of the reports: the summary by period and the revenue       *)
(* series asked on several days, by period name and by explicit dates,     *)
(* well-formed or not.                                                     *)

Mar01 == <<"2", "0", "2", "5", "-", "0", "3", "-", "0", "1">>
Mar31 == <<"2", "0", "2", "5", "-", "0", "3", "-", "3", "1">>
Jan29 == <<"2", "0", "2", "5", "-", "0", "1", "-", "2", "9">>
Feb28 == <<"2", "0", "2", "5", "-", "0", "2", "-", "2", "8">>
LeapDay == <<"2", "0", "2", "4", "-", "0", "2", "-", "2", "9">>
Unpadded == <<"2", "0", "2", "5", "-", "3", "-", "7">>
Month13 == <<"2", "0", "2", "5", "-", "1", "3", "-", "0", "1">>
Feb30 == <<"2", "0", "2", "5", "-", "0", "2", "-", "3", "0">>
Slashes == <<"0", "1", "/", "0", "3", "/", "2", "0", "2", "5">>
Word == <<"h", "o", "j", "e">>

\* the days the reports are asked on: mid-month, the ends of a year, a leap
\* day, a Monday and a Sunday
PeriodDays ==
    {toordinal(2025, 3, 15), toordinal(2025, 12, 31), toordinal(2025, 1, 1),
     toordinal(2024, 2, 29), toordinal(2025, 3, 31), toordinal(2025, 3, 16)}

InitPeriod ==
    /\ clients = <<>>
    /\ next_client_id = 1
    /\ services = [s \in 1..MaxServices |->
                     [id |-> s, name |-> SampleServices[s].name,
                      price |-> SampleServices[s].price, is_active |-> TRUE]]
    /\ next_service_id = MaxServices + 1
    /\ attendances = <<>>
    /\ next_attendance_id = 1
    /\ now \in {d * 24 + 15 : d \in PeriodDays}
    /\ whatsapp = NoCall
    /\ request = [op |-> "none"]
    /\ result = Pending
    /\ cpf_arg = <<>>
    /\ cpf_ret = [returned |-> FALSE, raised |-> FALSE, value |-> FALSE]
    /\ tasks = <<>>
    /\ host_offset = 0

PeriodNames == {"day", "week", "month", "quarter", "year", "decade"}

\* start_date and end_date as the query string gives them
StartInputs == {<<>>, Mar01, LeapDay, Unpadded, Month13, Slashes}
EndInputs == {<<>>, Mar31, Mar01, Feb28, Feb30, Word}

\* period, start_date, end_date of the summaries asked for: each period by
\* its name, and every pair of dates
PeriodInputs ==
    {<<period, <<>>, <<>>>> : period \in PeriodNames}
        \cup {<<"month", start_date, end_date>> :
                  start_date \in StartInputs, end_date \in EndInputs}

\* the revenue series is asked by day, over at most a week
SeriesStartInputs == {Mar01, Month13, Slashes}
SeriesEndInputs == {isoformat(toordinal(2025, 3, 7)), Feb28, Feb30, Word}

NextPeriod ==
    \/ Idle /\ \E i \in PeriodInputs : get_reports_summary_by_period(i[1], i[2], i[3])
    \/ Idle /\ \E start_date \in SeriesStartInputs, end_date \in SeriesEndInputs :
                  get_revenue_by_period("day", start_date, end_date)
    \/ revenue_loop

SpecPeriod == InitPeriod /\ [][NextPeriod]_vars

----------------------------------------------------------------------------
(* The revenue series in every granularity, recognized or not, over a      *)
(* database with one attendance, paid or not.                              *)

\* the values of period the loop of the series has a branch for
Granularities == {"day", "week", "month", "quarter", "year"}

\* period, start_date, end_date: every granularity over its default window
\* but the quarter, which is asked over the first weeks and over the first
\* hundred days of a year, and a period name that is no granularity
GranularityInputs ==
    {<<period, <<>>, <<>>>> : period \in (Granularities \ {"quarter"}) \cup {"hour"}}
        \cup {<<"quarter", isoformat(toordinal(2025, 1, 1)),
                isoformat(toordinal(2025, 2, 20))>>,
              <<"quarter", isoformat(toordinal(2025, 1, 1)),
                isoformat(toordinal(2025, 4, 10))>>}

NextSeries ==
    \/ Idle /\ create_client(CpfFormattedA, PhoneFormatted, "unconfigured")
    \/ Idle /\ \E attendance \in ReportCreateInputs : create_attendance(attendance)
    \/ Idle /\ update_attendance(1, [status |-> "finished"])
    \/ Idle /\ \E i \in GranularityInputs : get_revenue_by_period(i[1], i[2], i[3])
    \/ revenue_loop

SpecSeries == InitReports /\ [][NextSeries]_vars

----------------------------------------------------------------------------
(* The catalog under requests that overlap: each create and each update of *)
(* a service checks the name in one step and writes in a later one.        *)

\* a name of the catalog and one that is new to it
NameInputs == {SampleServices[2].name, "Sobrancelha"}

NextCatalog ==
    \/ \E name \in NameInputs : begin_create_service(name, SampleServices[2].price)
    \/ \E i \in DOMAIN tasks : commit_create_service(i)
    \/ \E s \in 1..(MaxServices + 1), name \in NameInputs :
           begin_update_service(s, name, SampleServices[2].price)
    \/ \E i \in DOMAIN tasks : commit_update_service(i)
    \/ Idle /\ delete_service(1)

SpecCatalog == InitReports /\ [][NextCatalog]_vars

----------------------------------------------------------------------------
(* The update of an attendance, field by field: each field absent, null or *)
(* given, on an attendance stored with or without notes.                   *)

UpdateCreateInputs ==
    [client_id : {1}, appointment_date : ReportAppointmentDates,
     payment_method : {None, "pix"}, notes : {None, "sem pressa"},
     service_ids : {<<1>>}]

\* the update_data of AttendanceUpdate.dict(exclude_unset=True): a field that
\* the body names with null is in it, with None
FieldUpdateInputs ==
    {<<>>}
        \cup {[status |-> v] : v \in StatusInputs \cup {None, ""}}
        \cup {[payment_status |-> v] : v \in {None, "cancelled"}}
        \cup {[payment_method |-> v] : v \in {None, "cash"}}
        \cup {[notes |-> v] : v \in {None, "volta"}}
        \cup {[status |-> v, payment_method |-> None, payment_status |-> None,
               notes |-> "volta"] : v \in StatusInputs}

NextUpdate ==
    \/ create_client(CpfFormattedA, PhoneFormatted, "unconfigured")
    \/ \E attendance \in UpdateCreateInputs : create_attendance(attendance)
    \/ \E a \in 1..MaxAttendances, u \in FieldUpdateInputs : update_attendance(a, u)

SpecUpdate == InitReports /\ [][NextUpdate]_vars

----------------------------------------------------------------------------
(* The reports on hosts of several timezones, at midday and in the late    *)
(* evening of Recife.                                                      *)

\* the offset from UTC, in hours, of the timezone the host is set to
HostOffsets == {0, -3, 9}

InitHost ==
    /\ clients = <<>>
    /\ next_client_id = 1
    /\ services = [s \in 1..MaxServices |->
                     [id |-> s, name |-> SampleServices[s].name,
                      price |-> SampleServices[s].price, is_active |-> TRUE]]
    /\ next_service_id = MaxServices + 1
    /\ attendances = <<>>
    /\ next_attendance_id = 1
    /\ now \in {ReportDay * 24 + 1, ReportDay * 24 + 15}
    /\ whatsapp = NoCall
    /\ request = [op |-> "none"]
    /\ result = Pending
    /\ cpf_arg = <<>>
    /\ cpf_ret = [returned |-> FALSE, raised |-> FALSE, value |-> FALSE]
    /\ tasks = <<>>
    /\ host_offset \in HostOffsets

NextHost ==
    \/ Idle /\ create_client(CpfFormattedA, PhoneFormatted, "unconfigured")
    \/ Idle /\ \E attendance \in ReportCreateInputs : create_attendance(attendance)
    \/ Idle /\ get_today_attendance
    \/ Idle /\ get_reports_summary
    \/ Idle /\ \E period \in PeriodNames : get_reports_summary_by_period(period, <<>>, <<>>)
    \/ Idle /\ get_revenue_by_period("day", <<>>, <<>>)
    \/ revenue_loop

SpecHost == InitHost /\ [][NextHost]_vars

----------------------------------------------------------------------------
(* Clients registered, updated and purged while attendances are created,   *)
(* updated and deleted.                                                    *)

PurgeCreateInputs ==
    [client_id : 1..MaxClients, appointment_date : ReportAppointmentDates,
     payment_method : {None}, notes : {None}, service_ids : {<<1>>}]

PurgeUpdateInputs == {[status |-> "finished"], [notes |-> "volta"]}

NextPurge ==
    \/ \E in \in TwoClientInputs : create_client(in[1], in[2], "unconfigured")
    \/ \E c \in IdInputs(next_client_id), in \in TwoClientInputs :
           update_client(c, in[1], in[2])
    \/ \E c \in IdInputs(next_client_id) : delete_client(c)
    \/ \E attendance \in PurgeCreateInputs : create_attendance(attendance)
    \/ \E a \in IdInputs(next_attendance_id), u \in PurgeUpdateInputs :
           update_attendance(a, u)
    \/ \E a \in IdInputs(next_attendance_id) : delete_attendance(a)

SpecPurge == InitReports /\ [][NextPurge]_vars

----------------------------------------------------------------------------
(* The revenue series over explicit windows, for each granularity, with    *)
(* attendances inside and outside the window.                              *)

WindowInputs ==
    {<<"day", isoformat(toordinal(2025, 3, 10)), isoformat(toordinal(2025, 3, 16))>>,
     <<"week", isoformat(toordinal(2025, 3, 1)), isoformat(toordinal(2025, 3, 20))>>,
     <<"month", isoformat(toordinal(2025, 2, 1)), isoformat(toordinal(2025, 3, 31))>>,
     <<"month", isoformat(toordinal(2025, 3, 1)), isoformat(toordinal(2025, 3, 10))>>,
     <<"quarter", isoformat(toordinal(2025, 1, 1)), isoformat(toordinal(2025, 2, 20))>>,
     <<"year", isoformat(toordinal(2025, 1, 1)), isoformat(toordinal(2025, 3, 10))>>}

NextBuckets ==
    \/ Idle /\ create_client(CpfFormattedA, PhoneFormatted, "unconfigured")
    \/ Idle /\ \E attendance \in ReportCreateInputs : create_attendance(attendance)
    \/ Idle /\ update_attendance(1, [status |-> "finished"])
    \/ Idle /\ \E i \in WindowInputs : get_revenue_by_period(i[1], i[2], i[3])
    \/ revenue_loop

SpecBuckets == InitReports /\ [][NextBuckets]_vars

----------------------------------------------------------------------------
(* An automatic inactivation that overlaps the creation of attendances:    *)
(* its query and its commit are two steps.                                 *)

NextRace ==
    \/ \E in \in TwoClientInputs : create_client(in[1], in[2], "unconfigured")
    \/ \E attendance \in PurgeCreateInputs : create_attendance(attendance)
    \/ \E a \in IdInputs(next_attendance_id), u \in PurgeUpdateInputs :
           update_attendance(a, u)
    \/ Idle /\ begin_auto_inactivate_clients(DefaultDaysInactive)
    \/ \E i \in DOMAIN tasks : commit_auto_inactivate_clients(i)

SpecRace == InitReports /\ [][NextRace]_vars

----------------------------------------------------------------------------
(* The properties.                                                         *)

\* a decimal digit
IsDecimal(ch) == ch \in DigitSet

\* the decimal digits of a raw string, in order
DigitsOf(raw) == SelectSeq(raw, IsDecimal)

\* the check digit of a weighted sum
CheckDigit(sum) == IF sum % 11 < 2 THEN 0 ELSE 11 - (sum % 11)

\* a tax id, as the specification defines it: 11 digits, not all alike,
\* the 10th the check digit of the first nine under weights 10..2 and the
\* 11th the check digit of the first ten under weights 11..2
ValidTaxId(d) ==
    /\ Len(d) = 11
    /\ \E j \in 2..11 : d[j] # d[1]
    /\ int(d[10]) = CheckDigit(10 * int(d[1]) + 9 * int(d[2]) + 8 * int(d[3])
                               + 7 * int(d[4]) + 6 * int(d[5]) + 5 * int(d[6])
                               + 4 * int(d[7]) + 3 * int(d[8]) + 2 * int(d[9]))
    /\ int(d[11]) = CheckDigit(11 * int(d[1]) + 10 * int(d[2]) + 9 * int(d[3])
                               + 8 * int(d[4]) + 7 * int(d[5]) + 6 * int(d[6])
                               + 5 * int(d[7]) + 4 * int(d[8]) + 3 * int(d[9])
                               + 2 * int(d[10]))

\* a service id list create_attendance must refuse: empty, or with an id of
\* no active service, or with a repeated id
BadServiceIds(service_ids) ==
    \/ service_ids = <<>>
    \/ \E i \in 1..Len(service_ids) :
           \/ service_ids[i] \notin ServiceIds
           \/ ~services[service_ids[i]].is_active
    \/ \E i, j \in 1..Len(service_ids) : i # j /\ service_ids[i] = service_ids[j]

\* C1: every update_attendance whose status is "finished" leaves the
\* attendance with payment_status = "paid", also when the same call
\* supplies a payment_status.
C1_FinishedForcesPaid ==
    (/\ request.op = "update_attendance"
     /\ result.status_code = 200
     /\ get(request.update_data, "status") = "finished")
        => attendances[request.attendance_id].payment_status = "paid"

\* C2: a create_attendance that is rejected leaves the attendances and
\* every client row (is_active and updated_at included) as they were.
C2_RejectedCreateChangesNothing ==
    [][(request'.op = "create_attendance" /\ result'.status_code # 200)
           => /\ attendances' = attendances
              /\ clients' = clients]_vars

\* C3: create_attendance with an empty service id list, or one with an id
\* of no active service, or one with a repeated id, adds no attendance and
\* (the client existing; a missing client is answered 404 first) answers
\* 400; it succeeds only when the number of distinct active services among
\* the ids equals the number of ids.
C3_ServiceIdsValidated ==
    [][request'.op = "create_attendance" =>
          LET service_ids == request'.attendance.service_ids
          IN  /\ BadServiceIds(service_ids) =>
                     /\ result'.status_code # 200
                     /\ attendances' = attendances
                     /\ request'.attendance.client_id \in ClientIds =>
                            result'.status_code = HTTP_400_BAD_REQUEST
              /\ result'.status_code = 200 =>
                     Cardinality({s \in ServiceIds :
                                    /\ services[s].is_active
                                    /\ \E i \in 1..Len(service_ids) : service_ids[i] = s})
                         = Len(service_ids)]_vars

\* a create_attendance with a repeated id of an active service was refused
C3_Witness ==
    /\ request.op = "create_attendance"
    /\ result.status_code = HTTP_400_BAD_REQUEST
    /\ Len(request.attendance.service_ids) = 2
    /\ request.attendance.service_ids[1] = request.attendance.service_ids[2]
    /\ services[request.attendance.service_ids[1]].is_active

\* C4: an attendance create_attendance has just added has status "waiting",
\* payment_status "pending" and exactly the requested services, whatever
\* payment method the request carries.
C4_CreatedWaitingPending ==
    (request.op = "create_attendance" /\ result.status_code = 200) =>
        /\ result.body.id \in AttendanceIds
        /\ attendances[result.body.id] = result.body
        /\ result.body.status = "waiting"
        /\ result.body.payment_status = "pending"
        /\ result.body.client_id = request.attendance.client_id
        /\ result.body.services =
               {request.attendance.service_ids[i] :
                    i \in 1..Len(request.attendance.service_ids)}

\* an attendance with a payment method and two services was just created
C4_Witness ==
    /\ request.op = "create_attendance"
    /\ result.status_code = 200
    /\ request.attendance.payment_method = "pix"
    /\ Len(request.attendance.service_ids) = 2

\* C5: create_attendance for an inactive client and an acceptable service
\* id list succeeds, and then the client is active and the attendance
\* exists; for a client id of no client it answers 404.
C5_InactiveClientReactivated ==
    [][request'.op = "create_attendance" =>
          LET c == request'.attendance.client_id
          IN  /\ c \notin ClientIds =>
                     /\ result'.status_code = HTTP_404_NOT_FOUND
                     /\ attendances' = attendances
              /\ (/\ c \in ClientIds
                  /\ ~clients[c].is_active
                  /\ ~BadServiceIds(request'.attendance.service_ids)) =>
                     /\ result'.status_code = 200
                     /\ clients'[c].is_active
                     /\ \E a \in AttendanceIds' \ AttendanceIds :
                            attendances'[a].client_id = c]_vars

\* a create_attendance succeeded for a client that it reactivated (only
\* create_attendance stamps updated_at with the Recife clock)
C5_Witness ==
    /\ request.op = "create_attendance"
    /\ result.status_code = 200
    /\ clients[result.body.client_id].is_active
    /\ clients[result.body.client_id].updated_at = get_recife_datetime

\* no two clients share a tax id, no two share a phone
UniqueClients ==
    \A c1, c2 \in ClientIds :
        c1 # c2 => /\ clients[c1].cpf # clients[c2].cpf
                   /\ clients[c1].phone # clients[c2].phone

\* the details of the errors that report a duplicate
ConflictDetails == {"CPF ja cadastrado", "Telefone ja cadastrado"}

\* a client other than except_id holds the tax id or the phone
Duplicates(cpf_digits, phone_digits, except_id) ==
    \E c \in ClientIds \ {except_id} :
        \/ clients[c].cpf = cpf_digits
        \/ clients[c].phone = phone_digits

\* C6: the clients never share a tax id or a phone; a create_client or
\* update_client with valid fields that another client already holds is
\* refused as a duplicate and leaves the clients as they were; an
\* update_client with valid fields no other client holds (the client's own
\* included) succeeds.
C6_DirectoryUnique ==
    [][/\ UniqueClients'
       /\ request'.op = "create_client" =>
              LET cpf_digits == DigitsOf(request'.cpf)
                  phone_digits == DigitsOf(request'.phone)
              IN  (/\ ValidTaxId(cpf_digits)
                   /\ Len(phone_digits) \in {10, 11}
                   /\ Duplicates(cpf_digits, phone_digits, 0)) =>
                      /\ result'.status_code = HTTP_400_BAD_REQUEST
                      /\ result'.detail \in ConflictDetails
                      /\ clients' = clients
       /\ (request'.op = "update_client" /\ request'.client_id \in ClientIds) =>
              LET id == request'.client_id
                  cpf_digits == DigitsOf(request'.cpf)
                  phone_digits == DigitsOf(request'.phone)
                  valid == /\ ValidTaxId(cpf_digits)
                           /\ Len(phone_digits) \in {10, 11}
              IN  /\ (valid /\ Duplicates(cpf_digits, phone_digits, id)) =>
                         /\ result'.status_code = HTTP_400_BAD_REQUEST
                         /\ result'.detail \in ConflictDetails
                         /\ clients' = clients
                  /\ (valid /\ ~Duplicates(cpf_digits, phone_digits, id)) =>
                         /\ result'.status_code = 200
                         /\ clients'[id].cpf = cpf_digits
                         /\ clients'[id].phone = phone_digits]_vars

\* an update_client was refused for a phone the other client holds
C6_Witness ==
    /\ request.op = "update_client"
    /\ result.status_code = HTTP_400_BAD_REQUEST
    /\ result.detail = "Telefone ja cadastrado"
    /\ \E c \in ClientIds \ {request.client_id} :
           clients[c].phone = DigitsOf(request.phone)

\* C7: _is_valid_cpf returns True exactly for the strings of 11 decimal
\* digits, not all alike, whose 10th and 11th digits are the two mod-11
\* check digits; so it accepts no string of 11 identical digits, and no
\* string that differs only in the last digit from one it accepts.
C7_CpfValidator ==
    (cpf_ret.returned \/ cpf_ret.raised) =>
        LET accepted == cpf_ret.returned /\ cpf_ret.value
        IN  /\ accepted <=> (/\ \A j \in 1..Len(cpf_arg) : cpf_arg[j] \in DigitSet
                             /\ ValidTaxId(cpf_arg))
            /\ (/\ Len(cpf_arg) = 11
                /\ \A j \in 1..11 : cpf_arg[j] = cpf_arg[1]) => ~accepted
            /\ accepted =>
                   \A ch \in DigitSet \ {cpf_arg[11]} :
                       ~_is_valid_cpf([cpf_arg EXCEPT ![11] = ch])

\* the validator accepted the reference tax id
C7_Witness ==
    /\ cpf_ret.returned
    /\ cpf_ret.value
    /\ cpf_arg = CpfValidA

\* C8: create_client keeps the digits of the phone and accepts it only if
\* 10 or 11 digits remain ("(11) 98888-7777" is stored as "11988887777", a
\* phone of 9 digits is refused); with an invalid tax id or phone it
\* answers a validation error and adds no client.
C8_RegisterValidates ==
    [][request'.op = "create_client" =>
          LET cpf_digits == DigitsOf(request'.cpf)
              phone_digits == DigitsOf(request'.phone)
          IN  /\ result'.status_code = 200 =>
                     /\ Len(phone_digits) \in {10, 11}
                     /\ result'.body.phone = phone_digits
                     /\ clients'[result'.body.id].phone = phone_digits
              /\ (result'.status_code = 200 /\ request'.phone = PhoneFormatted) =>
                     result'.body.phone = PhonePlain
              /\ Len(phone_digits) = 9 => result'.status_code # 200
              /\ (~ValidTaxId(cpf_digits) \/ Len(phone_digits) \notin {10, 11}) =>
                     /\ result'.status_code = HTTP_400_BAD_REQUEST
                     /\ result'.detail \in {"CPF invalido", "Telefone invalido"}
                     /\ clients' = clients]_vars

\* C9: whatever the notifier does, create_client and login_client answer
\* with the client, and the clients are what they would be without the
\* notifier: a create_client with valid fields no client holds adds and
\* returns the new client, a login_client that an active client matches
\* returns it and changes no client.
C9_NotifierNeverPropagates ==
    [][request'.op \in {"create_client", "login_client"} =>
          /\ whatsapp'.kind # "none" =>
                 /\ result'.status_code = 200
                 /\ result'.body.id \in DOMAIN clients'
                 /\ clients'[result'.body.id] = result'.body
          /\ request'.op = "create_client" =>
                 LET cpf_digits == DigitsOf(request'.cpf)
                     phone_digits == DigitsOf(request'.phone)
                     client == [id |-> next_client_id, cpf |-> cpf_digits,
                                phone |-> phone_digits, is_active |-> TRUE,
                                updated_at |-> now]
                 IN  (/\ ValidTaxId(cpf_digits)
                      /\ Len(phone_digits) \in {10, 11}
                      /\ ~Duplicates(cpf_digits, phone_digits, 0)) =>
                         /\ result' = OK(client)
                         /\ clients' = clients @@ (next_client_id :> client)
          /\ request'.op = "login_client" =>
                 LET identifier == DigitsOf(request'.identifier)
                     matches == {c \in ClientIds :
                                    /\ clients[c].is_active
                                    /\ \/ clients[c].cpf = identifier
                                       \/ clients[c].phone = identifier}
                 IN  /\ clients' = clients
                     /\ matches # {} =>
                            /\ result'.status_code = 200
                            /\ result'.body \in {clients[c] : c \in matches}]_vars

\* a create_client returned its client although the notifier raised
C9_Witness ==
    /\ request.op = "create_client"
    /\ whatsapp.raised
    /\ result.status_code = 200
    /\ result.body.id \in ClientIds

\* C10: login_client returns a client only if it is active and its tax id
\* or phone is the digits of the identifier; when no active client matches
\* (an inactive one may) it answers 404.
C10_LoginOnlyActive ==
    request.op = "login_client" =>
        LET identifier == DigitsOf(request.identifier)
            matches == {c \in ClientIds :
                           /\ clients[c].is_active
                           /\ \/ clients[c].cpf = identifier
                              \/ clients[c].phone = identifier}
        IN  /\ result.status_code \in {200, HTTP_404_NOT_FOUND}
            /\ result.status_code = 200 =>
                   /\ result.body.id \in matches
                   /\ clients[result.body.id] = result.body
            /\ matches = {} => result.status_code = HTTP_404_NOT_FOUND

\* a login_client with the phone of an inactive client was answered 404
C10_Witness ==
    /\ request.op = "login_client"
    /\ result.status_code = HTTP_404_NOT_FOUND
    /\ \E c \in ClientIds :
           /\ ~clients[c].is_active
           /\ clients[c].phone = DigitsOf(request.identifier)

\* the clients auto_inactivate_clients(days_inactive) has to flip: the
\* active ones with no attendance dated, at UTC-3, on or after the day
\* days_inactive days before now
StaleClients(days_inactive) ==
    LET cutoff_day == DateOf(now - RecifeOffsetHours - days_inactive * 24)
    IN  {c \in ClientIds :
            /\ clients[c].is_active
            /\ ~\E a \in AttendanceIds :
                   /\ attendances[a].client_id = c
                   /\ DateOf(attendances[a].appointment_date) >= cutoff_day}

\* C11: auto_inactivate_clients(d) makes inactive exactly the active
\* clients with no attendance on or after the local day of now - d days,
\* leaves the is_active of every other client, and returns how many it
\* flipped.
C11_InactivatesExactlyStale ==
    [][request'.op = "auto_inactivate_clients" =>
          LET stale == StaleClients(request'.days_inactive)
          IN  /\ DOMAIN clients' = DOMAIN clients
              /\ \A c \in ClientIds :
                     clients'[c].is_active = (clients[c].is_active /\ c \notin stale)
              /\ result'.body = Cardinality(stale)]_vars

\* the read operations
ReadOps == {"get_today_attendance", "get_client_attendances", "get_reports_summary",
            "get_reports_summary_by_period", "get_top_clients",
            "get_recent_activities", "get_revenue_by_period", "export_reports"}

\* C12: a step of a read operation (the list of today, the list of a client,
\* the dashboard summary, the summary by period, the top clients, the recent
\* activities, the revenue series in each of its steps, the export) leaves
\* the clients, the services and the attendances as they were; and the list
\* of today asked again at once, with the same today, is the same list.
C12_ReadsChangeNothing ==
    [][request'.op \in ReadOps =>
          /\ UNCHANGED <<clients, services, attendances>>
          /\ (request.op = "get_today_attendance"
                  /\ request'.op = "get_today_attendance") => result' = result]_vars

\* the list of today was asked twice in a row and holds an attendance
C12_Witness ==
    /\ request.op = "get_today_attendance"
    /\ result.status_code = 200
    /\ Len(result.body) = 1
    /\ result.body[1] = attendances[1]
    /\ DateOf(attendances[1].appointment_date) = get_recife_date

RECURSIVE PriceOf(_)
\* the sum of the current prices of a set of services
PriceOf(S) ==
    IF S = {} THEN 0
    ELSE LET s == CHOOSE x \in S : TRUE
         IN  services[s].price + PriceOf(S \ {s})

RECURSIVE PaidRevenue(_)
\* the sum over the paid attendances of a set of the current prices of
\* their services
PaidRevenue(A) ==
    IF A = {} THEN 0
    ELSE LET a == CHOOSE x \in A : TRUE
         IN  (IF attendances[a].payment_status = "paid"
              THEN PriceOf(attendances[a].services) ELSE 0) + PaidRevenue(A \ {a})

\* the last request finished an attendance with an update of its status alone
JustFinished ==
    /\ request.op = "update_attendance"
    /\ request.update_data = [status |-> "finished"]
    /\ result.status_code = 200

\* C13: once a client is registered, an attendance for it is created with
\* the active services S and an update sets its status to finished, the
\* dashboard summary asked next reports as totalRevenue exactly the sum of
\* the current prices of S, and the attendance is not among pendingPayments;
\* beside other attendances its prices are added to those of the other paid
\* ones and pendingPayments counts the pending ones among the others.
C13_FinishedCountsAsRevenue ==
    [][(JustFinished /\ request'.op = "get_reports_summary") =>
          LET a == request.attendance_id
              S == attendances[a].services
          IN  /\ result'.status_code = 200
              /\ attendances[a].payment_status = "paid"
              /\ result'.body.totalRevenue =
                     [num |-> PaidRevenue(AttendanceIds), den |-> 1]
              /\ result'.body.pendingPayments =
                     Cardinality({x \in AttendanceIds \ {a} :
                                     attendances[x].payment_status = "pending"})
              /\ AttendanceIds = {a} =>
                     /\ result'.body.totalRevenue = [num |-> PriceOf(S), den |-> 1]
                     /\ result'.body.pendingPayments = 0]_vars

\* the dashboard after finishing an attendance of both services, the first
\* at its raised price
C13_Witness ==
    /\ request.op = "get_reports_summary"
    /\ result.status_code = 200
    /\ 1 \in AttendanceIds
    /\ attendances[1].services = {1, 2}
    /\ attendances[1].status = "finished"
    /\ attendances[1].payment_status = "paid"
    /\ services[1].price = RaisedPrice
    /\ result.body.totalRevenue = [num |-> RaisedPrice + SampleServices[2].price, den |-> 1]
    /\ result.body.pendingPayments = 0

\* growth is the float g(current, previous) of the rule: 100 from a zero base
\* to a positive value, 0 from a zero base otherwise, and else
\* (current - previous) / previous * 100, as a ratio in lowest terms
IsGrowth(growth, current, previous) ==
    IF previous.num = 0
    THEN growth = [num |-> IF current.num > 0 THEN 100 ELSE 0, den |-> 1]
    ELSE /\ growth.den > 0
         /\ \A k \in 2..growth.den : ~(growth.den % k = 0 /\ growth.num % k = 0)
         /\ growth.num * (current.den * previous.num)
                = growth.den * 100 * (current.num * previous.den
                                          - previous.num * current.den)

\* C14: the growth of a metric is 100 when the previous value is 0 and the
\* current one is positive, 0 when the previous value is 0 and the current
\* one is not positive, and (current - previous) / previous * 100 otherwise,
\* so g(100, 0) = 100, g(0, 0) = 0 and g(150, 100) = 50 (all three among the
\* values tried); the growth of the
\* revenue, of the clients active in the period, of the attendances and of
\* the average ticket is each the growth of that metric alone.
C14_GrowthRule ==
    /\ (request.op = "calculate_percentage" /\ result.status_code = 200) =>
           IsGrowth(result.body, request.current_val, request.previous_val)
    /\ (request.op = "_calculate_growth_percentages" /\ result.status_code = 200) =>
           LET current == request.current
               previous == request.previous
               count(n) == [num |-> n, den |-> 1]
           IN  /\ IsGrowth(result.body.revenueGrowth,
                           current.totalRevenue, previous.totalRevenue)
               /\ IsGrowth(result.body.clientsGrowth,
                           count(current.activeClientsInPeriod),
                           count(previous.activeClientsInPeriod))
               /\ IsGrowth(result.body.attendancesGrowth,
                           count(current.totalAttendances),
                           count(previous.totalAttendances))
               /\ IsGrowth(result.body.averageTicketGrowth,
                           current.averageTicket, previous.averageTicket)

\* the growth from 0 to 100 was computed, and is 100
C14_Witness ==
    /\ request.op = "calculate_percentage"
    /\ request.current_val = [num |-> 100, den |-> 1]
    /\ request.previous_val = [num |-> 0, den |-> 1]
    /\ result.status_code = 200
    /\ result.body = [num |-> 100, den |-> 1]

\* the date an ISO string of a response stands for
DateFrom(text) == strptime(text).date

\* C15: in the summary by period the previous period ends the day before
\* the current one starts and has as many days: its start is its end minus
\* (length - 1); for the current period 2025-03-01 .. 2025-03-31 it is
\* 2025-01-29 .. 2025-02-28.
C15_PreviousPeriod ==
    (request.op = "get_reports_summary_by_period" /\ result.status_code = 200) =>
        LET current == result.body.period.current
            previous == result.body.period.previous
            length == DateFrom(current.end) - DateFrom(current.start) + 1
        IN  /\ DateFrom(previous.end) = DateFrom(current.start) - 1
            /\ DateFrom(previous.start) = DateFrom(previous.end) - (length - 1)
            /\ previous.start = isoformat(DateFrom(previous.start))
            /\ previous.end = isoformat(DateFrom(previous.end))
            /\ (current.start = Mar01 /\ current.end = Mar31) =>
                   (previous.start = Jan29 /\ previous.end = Feb28)

\* the summary of 2025-03-01 .. 2025-03-31 was asked and answered
C15_Witness ==
    /\ request.op = "get_reports_summary_by_period"
    /\ request.start_date = Mar01
    /\ request.end_date = Mar31
    /\ result.status_code = 200
    /\ result.body.period.current = [start |-> Mar01, end |-> Mar31]
    /\ result.body.period.previous = [start |-> Jan29, end |-> Feb28]

\* a date string that was supplied and that strptime('%Y-%m-%d') refuses
Malformed(text) == text # <<>> /\ strptime(text).raised

\* C16: a summary by period or a revenue series asked with a start and an
\* end date string, one of which is no valid YYYY-MM-DD date, is answered
\* with a validation error, a 4xx the caller can correct.
C16_MalformedDateRejected ==
    (/\ request.op \in {"get_reports_summary_by_period", "get_revenue_by_period"}
     /\ request.start_date # <<>>
     /\ request.end_date # <<>>
     /\ Malformed(request.start_date) \/ Malformed(request.end_date))
        => result.status_code \in 400..499

\* C17: a revenue series asked with a period that is no granularity
\* terminates, every pass of its loop appending a bucket and moving the
\* current day forward, and returns the daily series of the last 30 days:
\* one bucket for each day from today minus 30 days to today.
C17_UnrecognizedSeriesIsDaily ==
    (request.op = "get_revenue_by_period" /\ request.period \notin Granularities) =>
        /\ (tasks # <<>> /\ tasks[1].current <= tasks[1].end) =>
               /\ series_iteration(tasks[1]).current > tasks[1].current
               /\ Len(series_iteration(tasks[1]).data_points)
                      = Len(tasks[1].data_points) + 1
        /\ result.status_code = 200 =>
               /\ Len(result.body) = 31
               /\ \A i \in 1..31 : result.body[i].date = isoformat(date_today - 31 + i)

\* C18: deleting a service removes no record and changes no attendance: the
\* service is still there, with is_active false and nothing else changed,
\* every other service and every attendance is as it was (an attendance
\* that referenced the service references it still, with its status and its
\* payment status), and what is rejected is a later create_attendance for
\* an existing client that names a service no longer active, which stores
\* nothing.  No step of any operation removes a service.
C18_DeleteServiceKeepsHistory ==
    [][/\ DOMAIN services \subseteq DOMAIN services'
       /\ (request'.op = "delete_service" /\ result'.status_code = 200) =>
              /\ request'.service_id \in DOMAIN services
              /\ services' = [services EXCEPT ![request'.service_id].is_active = FALSE]
              /\ attendances' = attendances
       /\ (/\ request'.op = "create_attendance"
           /\ request'.attendance.client_id \in ClientIds
           /\ \E s \in Range(request'.attendance.service_ids) :
                  s \in ServiceIds /\ ~services[s].is_active) =>
              /\ result'.status_code = HTTP_400_BAD_REQUEST
              /\ attendances' = attendances]_vars

\* a service that an attendance references was deleted, and a create naming
\* it was then refused
C18_Witness ==
    /\ request.op = "create_attendance"
    /\ result.status_code = HTTP_400_BAD_REQUEST
    /\ \E a \in AttendanceIds :
           \E s \in attendances[a].services :
               /\ s \in ServiceIds
               /\ ~services[s].is_active
               /\ s \in Range(request.attendance.service_ids)

\* C19: every stored attendance has a status among waiting, progress,
\* finished and cancelled and a payment status among pending, paid and
\* cancelled, whatever strings the updates supplied.
C19_ClosedStatusSets ==
    \A a \in AttendanceIds :
        /\ attendances[a].status \in {"waiting", "progress", "finished", "cancelled"}
        /\ attendances[a].payment_status \in {"pending", "paid", "cancelled"}

\* C20: no two service records, active or not, have the same name, also
\* when two requests that create or update a service have both checked the
\* name before either writes.
C20_ServiceNamesUnique ==
    \A s, t \in ServiceIds : s # t => services[s].name # services[t].name

\* C21: a revenue series of a recognized granularity terminates: at the head
\* of its loop with the cursor not after the end, the pass emits exactly
\* one bucket and moves the cursor strictly forward.
C21_SeriesAdvances ==
    (/\ tasks # <<>>
     /\ tasks[1].op = "get_revenue_by_period"
     /\ tasks[1].period \in Granularities
     /\ tasks[1].current <= tasks[1].end) =>
        LET next == series_iteration(tasks[1])
        IN  /\ Len(next.data_points) = Len(tasks[1].data_points) + 1
            /\ next.current > tasks[1].current

\* the paid attendances of a client
PaidAttendancesOf(c) ==
    {a \in AttendanceIds : /\ attendances[a].client_id = c
                           /\ attendances[a].payment_status = "paid"}

\* C22: in the top clients each row counts the paid attendances of its
\* client, an attendance of several services once; the rows are the clients
\* with a paid attendance, at most 10 of them, in non-increasing order of
\* their count.
C22_TopClientsCountAttendances ==
    (request.op = "get_top_clients" /\ result.status_code = 200) =>
        LET rows == result.body
        IN  /\ Len(rows) <= 10
            /\ \A i \in 1..Len(rows) :
                   /\ PaidAttendancesOf(rows[i].id) # {}
                   /\ rows[i].totalVisits = Cardinality(PaidAttendancesOf(rows[i].id))
            /\ \A i, j \in 1..Len(rows) :
                   i < j => rows[i].totalVisits >= rows[j].totalVisits
            /\ Cardinality({c \in ClientIds : PaidAttendancesOf(c) # {}}) <= 10 =>
                   {rows[i].id : i \in 1..Len(rows)}
                       = {c \in ClientIds : PaidAttendancesOf(c) # {}}

\* the attendances dated in [start, end]
InRange(start, end) ==
    {a \in AttendanceIds : /\ DateOf(attendances[a].appointment_date) >= start
                           /\ DateOf(attendances[a].appointment_date) <= end}

\* C23: in the summary of a period [start, end] totalRevenue is the sum,
\* over the paid attendances dated in the period, of the prices their
\* services have when the report is asked; totalAttendances counts every
\* attendance dated in the period, paid or not; averageTicket is
\* totalRevenue / totalAttendances, and 0 when there is no attendance.
C23_PeriodMetrics ==
    (request.op = "get_reports_summary_by_period" /\ result.status_code = 200) =>
        LET metrics == result.body.metrics
            in_range == InRange(DateFrom(result.body.period.current.start),
                                DateFrom(result.body.period.current.end))
            revenue == PaidRevenue(in_range)
        IN  /\ metrics.totalRevenue = [num |-> revenue, den |-> 1]
            /\ metrics.totalAttendances = Cardinality(in_range)
            /\ metrics.averageTicket.den > 0
            /\ IF in_range = {} THEN metrics.averageTicket.num = 0
               ELSE metrics.averageTicket.num * Cardinality(in_range)
                        = revenue * metrics.averageTicket.den

\* a summary whose period holds a paid attendance of the service whose
\* price was raised
C23_Witness ==
    /\ request.op = "get_reports_summary_by_period"
    /\ result.status_code = 200
    /\ 1 \in AttendanceIds
    /\ attendances[1].payment_status = "paid"
    /\ services[1].price = RaisedPrice
    /\ result.body.metrics.totalAttendances = 1
    /\ result.body.metrics.totalRevenue
           = [num |-> PriceOf(attendances[1].services), den |-> 1]
    /\ result.body.metrics.averageTicket = result.body.metrics.totalRevenue

\* C24: an update of an attendance changes only the fields it supplies with
\* a value that is not null: status, payment method, payment status and
\* notes each keep the stored value when the call leaves the field out or
\* gives it as null, but that the payment status may change when the status
\* supplied is finished; the client, the appointment date and the services
\* are never changed.
C24_UpdateFrame ==
    [][(request'.op = "update_attendance" /\ result'.status_code = 200) =>
          LET update_data == request'.update_data
              old == attendances[request'.attendance_id]
              new == attendances'[request'.attendance_id]
              supplied(field) == /\ field \in DOMAIN update_data
                                 /\ update_data[field] # None
          IN  /\ ~supplied("status") => new.status = old.status
              /\ ~supplied("payment_method") => new.payment_method = old.payment_method
              /\ ~supplied("notes") => new.notes = old.notes
              /\ (/\ ~supplied("payment_status")
                  /\ ~(supplied("status") /\ update_data["status"] = "finished"))
                     => new.payment_status = old.payment_status
              /\ new.client_id = old.client_id
              /\ new.appointment_date = old.appointment_date
              /\ new.services = old.services]_vars

\* C25: no change of status is refused: whatever the stored status of an
\* attendance, finished and cancelled included, an update that supplies one
\* of waiting, progress, finished and cancelled succeeds and leaves the
\* attendance with the status supplied.
C25_AnyTransition ==
    [][(/\ request'.op = "update_attendance"
        /\ request'.attendance_id \in AttendanceIds
        /\ "status" \in DOMAIN request'.update_data
        /\ request'.update_data["status"]
               \in {"waiting", "progress", "finished", "cancelled"}) =>
          /\ result'.status_code = 200
          /\ attendances'[request'.attendance_id].status
                 = request'.update_data["status"]]_vars

\* an attendance that was finished (nothing else makes it paid here) is
\* waiting again by the last update
C25_Witness ==
    /\ request.op = "update_attendance"
    /\ request.update_data = [status |-> "waiting"]
    /\ result.status_code = 200
    /\ attendances[1].status = "waiting"
    /\ attendances[1].payment_status = "paid"

\* the civil date of the Time Provider: the UTC-3 day of the instant
LocalToday == (now - 3) \div 24

\* C26: when the two bounds are not both given, the current period of a
\* summary contains today and is aligned to the calendar: the day is today
\* alone, the week runs from the Monday to the Sunday around today, the
\* month from the first to the last day of today's month, the quarter from
\* the first day of the first month to the last day of the third month of
\* today's quarter, the year from 1 January to 31 December; when both
\* bounds are given, they are the period.
C26_PeriodAligned ==
    (request.op = "get_reports_summary_by_period" /\ result.status_code = 200) =>
        LET start == DateFrom(result.body.period.current.start)
            end == DateFrom(result.body.period.current.end)
            first == fromordinal(start)
            last == fromordinal(end)
            after == fromordinal(end + 1)
            today == fromordinal(LocalToday)
            quarter == (today.month - 1) \div 3
        IN  IF request.start_date # <<>> /\ request.end_date # <<>>
            THEN /\ start = DateFrom(request.start_date)
                 /\ end = DateFrom(request.end_date)
            ELSE /\ request.period \in Granularities =>
                     (start <= LocalToday /\ LocalToday <= end)
                 /\ request.period = "day" => (start = LocalToday /\ end = LocalToday)
                 /\ request.period = "week" =>
                        (weekday(start) = 0 /\ weekday(end) = 6 /\ end = start + 6)
                 /\ request.period = "month" =>
                        /\ first = [year |-> today.year, month |-> today.month, day |-> 1]
                        /\ last.year = today.year
                        /\ last.month = today.month
                        /\ after.day = 1
                 /\ request.period = "quarter" =>
                        /\ first = [year |-> today.year, month |-> quarter * 3 + 1,
                                    day |-> 1]
                        /\ last.year = today.year
                        /\ last.month = quarter * 3 + 3
                        /\ after.day = 1
                 /\ request.period = "year" =>
                        /\ first = [year |-> today.year, month |-> 1, day |-> 1]
                        /\ last = [year |-> today.year, month |-> 12, day |-> 31]

\* the quarter asked on the last day of a year: October to December
C26_Witness ==
    /\ request.op = "get_reports_summary_by_period"
    /\ request.period = "quarter"
    /\ request.start_date = <<>>
    /\ result.status_code = 200
    /\ LocalToday = toordinal(2025, 12, 31)
    /\ DateFrom(result.body.period.current.start) = toordinal(2025, 10, 1)
    /\ DateFrom(result.body.period.current.end) = toordinal(2025, 12, 31)

\* C27: at every instant and on a host of any timezone, the today of the
\* reports is the civil date of the Time Provider (UTC-3): the day period of
\* a summary is that date, the default daily series ends on it, and the
\* list of today holds the attendances dated on it.
C27_OneToday ==
    /\ (/\ request.op = "get_reports_summary_by_period"
        /\ request.period = "day"
        /\ result.status_code = 200) =>
           /\ result.body.period.current.start = isoformat(LocalToday)
           /\ result.body.period.current.end = isoformat(LocalToday)
    /\ (request.op = "get_revenue_by_period" /\ tasks # <<>>) =>
           tasks[1].end = LocalToday
    /\ (request.op = "get_today_attendance" /\ result.status_code = 200) =>
           \A i \in 1..Len(result.body) :
               DateOf(result.body[i].appointment_date) = LocalToday

\* C28: whatever clients are registered, updated and purged and whatever
\* attendances are created, updated and deleted, the client_id of every
\* attendance is the id of a stored client; a purge that succeeded was of a
\* client no attendance refers to, and a purge of a client that has
\* attendances failed.
C28_AttendanceClientExists ==
    /\ \A a \in DOMAIN attendances : attendances[a].client_id \in ClientIds
    /\ (request.op = "delete_client" /\ result.status_code = 200) =>
           /\ request.client_id \notin ClientIds
           /\ attendances_of(request.client_id) = {}
    /\ (request.op = "delete_client" /\ attendances_of(request.client_id) # {}) =>
           result.status_code = 500

\* a client that has an attendance was asked to be purged, and is still stored
C28_Witness ==
    /\ request.op = "delete_client"
    /\ result.status_code = 500
    /\ request.client_id \in ClientIds
    /\ attendances_of(request.client_id) # {}

RECURSIVE SumRevenue(_, _)
\* the sum of the revenues of the first n data points of a series
SumRevenue(points, n) ==
    IF n = 0 THEN 0 ELSE points[n].revenue.num + SumRevenue(points, n - 1)

\* C29: for a series asked with both bounds, start <= end, the revenues of
\* the buckets returned add up to the paid revenue of the attendances dated
\* in [start, end]: nothing dated outside the window is in any bucket and
\* nothing dated inside it is left out or counted twice.
C29_BucketsPartition ==
    (/\ request.op = "get_revenue_by_period"
     /\ result.status_code = 200
     /\ request.start_date # <<>>
     /\ request.end_date # <<>>) =>
        /\ \A n \in 1..Len(result.body) : result.body[n].revenue.den = 1
        /\ SumRevenue(result.body, Len(result.body)) =
               PaidRevenue(InRange(DateFrom(request.start_date),
                                   DateFrom(request.end_date)))

\* the clients that have an attendance dated on or after the cutoff of an
\* automatic inactivation of DefaultDaysInactive days
RecentClients ==
    {attendances[a].client_id : a \in
        {x \in DOMAIN attendances :
            DateOf(attendances[x].appointment_date) >=
                DateOf(utcnow - DefaultDaysInactive * 24)}}

\* C30: when an automatic inactivation overlaps the creation of an
\* attendance of the same client, once both are over the client is not
\* inactive while it has an attendance dated on or after the cutoff, as
\* after either serial order of the two.
C30_RaceIsSerial ==
    tasks = <<>> =>
        \A c \in ClientIds : clients[c].is_active = FALSE => c \notin RecentClients

====
